---- MODULE Spec2Model ----
(***************************************************************************)
(* A model of the jsip image library: the Matrix container                 *)
(* (src/unnamed/part_000, required as ./Matrix), the kernel factories      *)
(* (src/src/objects/kernels.js) and the Imager operations                  *)
(* (src/src/Imager.js): convolution, pixelize, the blend operators and     *)
(* the matrix product.                                                     *)
(*                                                                         *)
(* Numbers.  A JavaScript number is an IEEE-754 binary64 value: every      *)
(* arithmetic result is rounded to the nearest representable value, ties   *)
(* to even, x/0 is an infinity or NaN and never an exception.  The model   *)
(* keeps that structure with a narrower format: a finite number is an      *)
(* integer count of 2^-FracBits, representable when it has at most Prec    *)
(* significant bits (counts below 2^Prec play the part of the subnormals), *)
(* and a magnitude of Huge or more overflows to an infinity.  binary64 is  *)
(* the instance Prec = 53.  The zero is unsigned (-0 is not modelled).     *)
(*                                                                         *)
(* Objects.  A, B and w are the three Matrix objects a caller holds: the   *)
(* image (or receiver), the overlay (or operand) and the kernel.  Every    *)
(* action is one whole call on them; pre, call and out record the values   *)
(* before the call, what was called, and how the call ended; calls counts  *)
(* the calls made.                                                         *)
(***************************************************************************)
EXTENDS Integers, Sequences, FiniteSets, TLC

(***************************************************************************)
(* Bounds of the model.                                                    *)
(***************************************************************************)
Prec == 8
MaxRows == 2
MaxCols == 2
NSeeds == 3
MaxSize == 3
MaxChls == 4
MaxN == 5
MaxCalls == 2
MaxDrift == 3

(***************************************************************************)
(* Numbers                                                                 *)
(***************************************************************************)
RECURSIVE Pow2(_)
Pow2(n) == IF n = 0 THEN 1 ELSE 2 * Pow2(n - 1)

FracBits == Prec + 2
One == Pow2(FracBits)
Huge == Pow2(FracBits + 9)
Inf == 2 * Huge
NegInf == 0 - Inf
NaN == 4 * Huge
MaxInt == Pow2(30) + (Pow2(30) - 1)

Abs(x) == IF x < 0 THEN 0 - x ELSE x
IsNaN(x) == x = NaN
IsInfinite(x) == x = Inf \/ x = NegInf
IsFinite(x) == ~IsNaN(x) /\ ~IsInfinite(x)
Sgn(x) == IF x < 0 THEN 0 - 1 ELSE 1

\* The least scaling D = d * 2^e (e >= 0) that brings n / D below 2^Prec,
\* with the factor 2^e.
RECURSIVE FlStep(_, _, _)
FlStep(n, D, p) ==
  IF n \div D < Pow2(Prec) THEN <<D, p>> ELSE FlStep(n, 2 * D, 2 * p)

RoundHalfEven(n, D) ==
  LET q == n \div D
      r == n % D
  IN IF 2 * r > D \/ (2 * r = D /\ q % 2 = 1) THEN q + 1 ELSE q

FlPos(n, d) ==
  LET s == FlStep(n, d, 1)
  IN RoundHalfEven(n, s[1]) * s[2]

\* The exact quotient n / d (d > 0), in units of 2^-FracBits, rounded to the
\* nearest representable number, ties to even; overflow gives an infinity.
Fl(n, d) ==
  LET v == IF n >= 0 THEN FlPos(n, d) ELSE 0 - FlPos(0 - n, d)
  IN IF v >= Huge THEN Inf ELSE IF v <= 0 - Huge THEN NegInf ELSE v

\* The number literal n (an integer of the source text).
Num(n) == Fl(n * One, 1)

FNeg(a) == IF IsNaN(a) THEN NaN ELSE 0 - a

FAdd(a, b) ==
  IF IsNaN(a) \/ IsNaN(b) THEN NaN
  ELSE IF a = Inf THEN (IF b = NegInf THEN NaN ELSE Inf)
  ELSE IF a = NegInf THEN (IF b = Inf THEN NaN ELSE NegInf)
  ELSE IF IsInfinite(b) THEN b
  ELSE Fl(a + b, 1)

FSub(a, b) == FAdd(a, FNeg(b))

FMul(a, b) ==
  IF IsNaN(a) \/ IsNaN(b) THEN NaN
  ELSE IF IsInfinite(a) \/ IsInfinite(b)
    THEN (IF a = 0 \/ b = 0 THEN NaN ELSE Sgn(a) * Sgn(b) * Inf)
  ELSE IF b # 0 /\ Abs(a) > MaxInt \div Abs(b) THEN Sgn(a) * Sgn(b) * Inf
  ELSE Fl(a * b, One)

FDiv(a, b) ==
  IF IsNaN(a) \/ IsNaN(b) THEN NaN
  ELSE IF IsInfinite(a)
    THEN (IF IsInfinite(b) THEN NaN ELSE Sgn(a) * Sgn(b) * Inf)
  ELSE IF IsInfinite(b) THEN 0
  ELSE IF b = 0 THEN (IF a = 0 THEN NaN ELSE Sgn(a) * Inf)
  ELSE IF b > 0 THEN Fl(a * One, b)
  ELSE Fl((0 - a) * One, 0 - b)

\* a < b, a > b and a === b of the source: false whenever a NaN is compared.
FLt(a, b) == ~IsNaN(a) /\ ~IsNaN(b) /\ a < b
FGt(a, b) == FLt(b, a)
FEq(a, b) == ~IsNaN(a) /\ ~IsNaN(b) /\ a = b

\* Math.abs, Math.min, Math.max.
FAbs(a) == IF IsNaN(a) THEN NaN ELSE Abs(a)
FMin(a, b) == IF IsNaN(a) \/ IsNaN(b) THEN NaN ELSE IF a < b THEN a ELSE b
FMax(a, b) == IF IsNaN(a) \/ IsNaN(b) THEN NaN ELSE IF a > b THEN a ELSE b

\* The largest t in lo..hi with t * t <= n (hi * hi must fit an integer).
RECURSIVE ISqrt(_, _, _)
ISqrt(n, lo, hi) ==
  IF lo >= hi THEN lo
  ELSE LET mid == (lo + hi + 1) \div 2
       IN IF mid * mid <= n THEN ISqrt(n, mid, hi) ELSE ISqrt(n, lo, mid - 1)

\* Math.sqrt: the square root rounded to the nearest representable number.
FSqrt(a) ==
  IF IsNaN(a) \/ a < 0 THEN NaN
  ELSE IF a = Inf THEN Inf
  ELSE LET n == a * One
           t == ISqrt(n, 0, Pow2(15))
           p == FlStep(t, 1, 1)[2]
           lo == (t \div p) * p
           m == 2 * lo + p
       IN IF 4 * n > m * m \/ (4 * n = m * m /\ (t \div p) % 2 = 1)
            THEN lo + p ELSE lo

(***************************************************************************)
(* Matrix (src/unnamed/part_000)                                           *)
(*                                                                         *)
(* A Matrix is [rows, cols, chls, m]; m[i][j] is the pixel stored at row i *)
(* and column j (indices from 0, as in the source).  A pixel is            *)
(* [arr |-> TRUE, v |-> <<v0, v1, ...>>] when the source stores an array   *)
(* of channel values and [arr |-> FALSE, v |-> <<x>>] when it stores a     *)
(* bare number (chls = 1).  An operation that can throw yields             *)
(* [mat |-> the matrix at that moment, err |-> the error or "none"].       *)
(***************************************************************************)
Scalar(x) == [arr |-> FALSE, v |-> <<x>>]
Pixel(vs) == [arr |-> TRUE, v |-> vs]
Ok(M) == [mat |-> M, err |-> "none"]
Fail(M, e) == [mat |-> M, err |-> e]

CellCount(M) == M.rows * M.cols
CellRow(M, n) == n \div M.cols
CellCol(M, n) == n % M.cols

\* The index test of get and set, without and with a channel.
InRange(M, i, j) == ~(i >= M.rows \/ j >= M.cols \/ i < 0 \/ j < 0)
InRangeK(M, i, j, k) ==
  ~(i >= M.rows \/ j >= M.cols \/ k >= M.chls \/ i < 0 \/ j < 0 \/ k < 0)

\* this.m[i][j][k]: indexing past the stored array, or indexing a bare
\* number, reads undefined, which every arithmetic use turns into NaN.
get(M, i, j, k) ==
  LET p == M.m[i][j]
  IN IF p.arr /\ k < Len(p.v) THEN p.v[k + 1] ELSE NaN

\* this.m[i][j]: the stored pixel itself.
getPixel(M, i, j) == M.m[i][j]

\* this.m[i][j][k] = v on a stored array (a write past its end extends it).
set(M, i, j, v, k) ==
  LET p == M.m[i][j]
      n == IF k + 1 > Len(p.v) THEN k + 1 ELSE Len(p.v)
  IN [M EXCEPT !.m[i][j] =
        Pixel([x \in 1..n |-> IF x = k + 1 THEN v
                              ELSE IF x <= Len(p.v) THEN p.v[x] ELSE NaN])]

\* this.m[i][j] = p.
setCell(M, i, j, p) == [M EXCEPT !.m[i][j] = p]

\* setPixel(i, j, r, g, b, a); hasA tells whether a was passed.
setPixel(M, i, j, r, g, b, a, hasA) ==
  IF M.chls < 3 THEN Fail(M, "Error")
  ELSE IF ~hasA /\ ~InRange(M, i, j) THEN Fail(M, "RangeError")
  ELSE IF ~InRangeK(M, i, j, 0) THEN Fail(M, "RangeError")
  ELSE LET M3 == set(set(set(M, i, j, r, 0), i, j, g, 1), i, j, b, 2)
       IN IF hasA /\ M.chls >= 4 THEN Ok(set(M3, i, j, a, 3)) ELSE Ok(M3)

\* generate(rows, cols, chls, v): parseInt of 0 is falsy; Array(n) of a
\* negative n throws.
generateErr(rows, cols, chls) ==
  IF rows = 0 \/ cols = 0 \/ chls = 0 THEN "TypeError"
  ELSE IF rows < 0 \/ cols < 0 THEN "RangeError"
  ELSE "none"

generate(rows, cols, chls, v) ==
  [rows |-> rows, cols |-> cols, chls |-> chls,
   m |-> [r \in 0..(rows - 1) |-> [c \in 0..(cols - 1) |->
            IF chls > 1 THEN Pixel([x \in 1..chls |-> v]) ELSE Scalar(v)]]]

zeros(rows, cols, chls) == generate(rows, cols, chls, 0)

\* load(m) of a 2D literal of numbers: lit is the sequence of its rows.
load(lit) ==
  [rows |-> Len(lit), cols |-> Len(lit[1]), chls |-> 1,
   m |-> [r \in 0..(Len(lit) - 1) |-> [c \in 0..(Len(lit[1]) - 1) |->
            Scalar(Num(lit[r + 1][c + 1]))]]]

\* fillAlpha(a): apply((i, j) => this.set(i, j, a, 3)).
RECURSIVE fillAlphaFrom(_, _, _)
fillAlphaFrom(M, a, n) ==
  IF n >= CellCount(M) THEN Ok(M)
  ELSE IF ~InRangeK(M, CellRow(M, n), CellCol(M, n), 3) THEN Fail(M, "RangeError")
  ELSE fillAlphaFrom(set(M, CellRow(M, n), CellCol(M, n), a, 3), a, n + 1)

fillAlpha(M, a) == fillAlphaFrom(M, a, 0)

\* copy(to, offset): apply((i, j) => to.set(i + offset.i, j + offset.j,
\* this.get(i, j))).  The out-of-range branch of set without a channel is
\* `throw new new RangeError(...)`, which raises a TypeError.
RECURSIVE copyFrom(_, _, _, _, _)
copyFrom(M, to, oi, oj, n) ==
  IF n >= CellCount(M) THEN Ok(to)
  ELSE LET i == CellRow(M, n)
           j == CellCol(M, n)
       IN IF ~InRange(to, i + oi, j + oj) THEN Fail(to, "TypeError")
          ELSE copyFrom(M, setCell(to, i + oi, j + oj, getPixel(M, i, j)),
                        oi, oj, n + 1)

copy(M, to, oi, oj) == copyFrom(M, to, oi, oj, 0)

\* extrude(chls).
extrudePixel(p, from, chls) ==
  IF from = 1
    THEN Pixel([x \in 1..chls |-> p.v[1]])
    ELSE Pixel([x \in 1..(Len(p.v) + (chls - from)) |->
                  IF x <= Len(p.v) THEN p.v[x]
                  ELSE IF from <= Len(p.v) THEN p.v[from] ELSE NaN])

\* extrude(chls) with <= in place of < in its second test.
extrudeRejectsEqual(M, chls) ==
  IF chls <= 1 THEN Fail(M, "RangeError")
  ELSE IF chls <= M.chls THEN Fail(M, "RangeError")
  ELSE Ok([M EXCEPT !.chls = chls,
                    !.m = [i \in 0..(M.rows - 1) |-> [j \in 0..(M.cols - 1) |->
                             extrudePixel(M.m[i][j], M.chls, chls)]]])

extrude(M, chls) ==
  IF chls <= 1 THEN Fail(M, "RangeError")
  ELSE IF chls < M.chls THEN Fail(M, "RangeError")
  ELSE Ok([M EXCEPT !.chls = chls,
                    !.m = [i \in 0..(M.rows - 1) |-> [j \in 0..(M.cols - 1) |->
                             extrudePixel(M.m[i][j], M.chls, chls)]]])

\* swapCol(j, j2), swapRow(i, i2).
swapCol(M, j, j2) ==
  [M EXCEPT !.m = [i \in 0..(M.rows - 1) |-> [c \in 0..(M.cols - 1) |->
                     IF c = j THEN M.m[i][j2]
                     ELSE IF c = j2 THEN M.m[i][j] ELSE M.m[i][c]]]]

swapRow(M, i, i2) ==
  [M EXCEPT !.m = [r \in 0..(M.rows - 1) |->
                     IF r = i THEN M.m[i2]
                     ELSE IF r = i2 THEN M.m[i] ELSE M.m[r]]]

\* flipX: for (j = 0; j < Math.floor(this.cols) / 2; j++) swapCol(j, cols-j-1).
RECURSIVE flipXFrom(_, _)
flipXFrom(M, j) ==
  IF 2 * j < M.cols THEN flipXFrom(swapCol(M, j, M.cols - j - 1), j + 1) ELSE M

flipX(M) == flipXFrom(M, 0)

RECURSIVE flipYFrom(_, _)
flipYFrom(M, i) ==
  IF 2 * i < M.rows THEN flipYFrom(swapRow(M, i, M.rows - i - 1), i + 1) ELSE M

flipY(M) == flipYFrom(M, 0)

\* flipXY without its second flip.
flipXYOnlyX(M) == flipX(M)

flipXY(M) == flipY(flipX(M))

\* add(v), sub(v), mul(v), div(v): applyAll over every stored value.
mapAll(M, op, v) ==
  LET F(x) == CASE op = "mul" -> FMul(x, v)
                [] op = "div" -> FDiv(x, v)
                [] op = "add" -> FAdd(x, v)
                [] OTHER -> FSub(x, v)
  IN [M EXCEPT !.m = [i \in 0..(M.rows - 1) |-> [j \in 0..(M.cols - 1) |->
        IF M.chls > 1
          THEN Pixel([x \in 1..Len(M.m[i][j].v) |->
                        IF x <= M.chls THEN F(M.m[i][j].v[x]) ELSE M.m[i][j].v[x]])
          ELSE Scalar(F(M.m[i][j].v[1]))]]]

mul(M, v) == mapAll(M, "mul", v)

div(M, v) ==
  IF v = 0 THEN Fail(M, "RangeError")
  ELSE Ok(mapAll(M, "div", v))

\* add(v), sub(v).
add(M, v) == mapAll(M, "add", v)

sub(M, v) == mapAll(M, "sub", v)

\* set(i, j, v, k) as a caller reaches it: the index test with a channel,
\* then this.m[i][j][k] = v; on a bare number (one channel) the assignment
\* is a TypeError in the strict code of the class.
setChannel(M, i, j, v, k) ==
  IF ~InRangeK(M, i, j, k) THEN Fail(M, "RangeError")
  ELSE IF ~M.m[i][j].arr THEN Fail(M, "TypeError")
  ELSE Ok(set(M, i, j, v, k))

\* intrude(chls): two tests, then every cell becomes
\* get(i, j).slice(0, chls) (at most the values it has) or, for chls = 1,
\* get(i, j, 0); this.chls = chls whatever was stored.
intrude(M, chls) ==
  IF chls < 1 THEN Fail(M, "RangeError")
  ELSE IF M.chls = 1 THEN Fail(M, "RangeError")
  ELSE Ok([M EXCEPT !.chls = chls,
            !.m = [i \in 0..(M.rows - 1) |-> [j \in 0..(M.cols - 1) |->
                     IF chls > 1
                       THEN Pixel(SubSeq(M.m[i][j].v, 1,
                                         IF chls < Len(M.m[i][j].v) THEN chls
                                         ELSE Len(M.m[i][j].v)))
                       ELSE Scalar(get(M, i, j, 0))]]])

\* transpose(): t = new Matrix(cols, rows, chls), t.set(i, j, this.get(j, i)),
\* then m, rows, cols and chls are taken from t.
transpose(M) ==
  [rows |-> M.cols, cols |-> M.rows, chls |-> M.chls,
   m |-> [i \in 0..(M.cols - 1) |-> [j \in 0..(M.rows - 1) |-> getPixel(M, j, i)]]]

\* parseInt(x) of a number: the integer part of its decimal text, NaN for
\* NaN, the infinities and undefined.
parseInt(x) ==
  IF ~IsFinite(x) THEN NaN ELSE Sgn(x) * ((Abs(x) \div One) * One)

\* toInt(): applyAll((i, j, k) => set(i, j, parseInt(get(i, j, k)), k)); with
\* one channel k is undefined and the bare number is replaced.
toInt(M) ==
  [M EXCEPT !.m = [i \in 0..(M.rows - 1) |-> [j \in 0..(M.cols - 1) |->
     IF M.chls > 1
       THEN Pixel([x \in 1..(IF Len(M.m[i][j].v) > M.chls THEN Len(M.m[i][j].v) ELSE M.chls) |->
                     IF x <= M.chls THEN parseInt(get(M, i, j, x - 1))
                     ELSE M.m[i][j].v[x]])
       ELSE Scalar(parseInt(M.m[i][j].v[1]))]]]

\* flatten(): applyAll pushes get(i, j, k), rows outermost and channels
\* innermost; with one channel it pushes get(i, j).
flatten(M) ==
  LET n == IF M.chls > 1 THEN M.chls ELSE 1
  IN [x \in 1..(M.rows * M.cols * n) |->
        LET c == (x - 1) \div n
            i == c \div M.cols
            j == c % M.cols
        IN IF M.chls > 1 THEN get(M, i, j, (x - 1) % n) ELSE M.m[i][j].v[1]]

\* The number a stored cell stands for in a product or a sum: itself when it
\* is a bare number; an array coerces through its string.
cellValue(p) ==
  IF ~p.arr \/ Len(p.v) = 1 THEN p.v[1]
  ELSE IF Len(p.v) = 0 THEN 0 ELSE NaN

\* mmul(B): the three loops, n counting the passes of
\*   prod.accum(i, j, this.get(k, j) * B.get(i, k)).
RECURSIVE mmulFrom(_, _, _, _)
mmulFrom(M, Bm, prod, n) ==
  IF n >= M.rows * M.cols * Bm.cols THEN Ok(prod)
  ELSE LET i == n \div (M.cols * Bm.cols)
           j == (n \div Bm.cols) % M.cols
           k == n % Bm.cols
       IN IF ~InRange(M, k, j) \/ ~InRange(Bm, i, k) \/ ~InRange(prod, i, j)
            THEN Fail(prod, "RangeError")
            ELSE mmulFrom(M, Bm,
                   setCell(prod, i, j,
                     Scalar(FAdd(cellValue(getPixel(prod, i, j)),
                                 FMul(cellValue(getPixel(M, k, j)),
                                      cellValue(getPixel(Bm, i, k)))))),
                   n + 1)

\* mmul(B) on the receiver M; the message of the size error calls getSize(),
\* which reads an undeclared name.
mmul(M, Bm) ==
  IF M.chls > 1 \/ Bm.chls > 1 THEN Fail(M, "Error")
  ELSE IF M.cols # Bm.rows THEN Fail(M, "ReferenceError")
  ELSE LET p == mmulFrom(M, Bm, zeros(M.cols, Bm.rows, 1), 0)
       IN IF p.err # "none" THEN Fail(M, p.err)
          ELSE copy(p.mat, M, 0, 0)

(***************************************************************************)
(* Kernels (src/src/objects/kernels.js)                                    *)
(***************************************************************************)
identity == load(<<<<0, 0, 0>>, <<0, 1, 0>>, <<0, 0, 0>>>>)
emboss == load(<<<<0 - 2, 0 - 1, 0>>, <<0 - 1, 1, 1>>, <<0, 1, 2>>>>)
sobelRight == load(<<<<0 - 1, 0, 1>>, <<0 - 2, 0, 2>>, <<0 - 1, 0, 1>>>>)
boxBlur == mul(load(<<<<1, 1, 1>>, <<1, 1, 1>>, <<1, 1, 1>>>>), FDiv(Num(1), Num(9)))
edgeDetection1 == load(<<<<1, 0, 0 - 1>>, <<0, 1, 0>>, <<0 - 1, 0, 1>>>>)
edgeDetection2 == load(<<<<0, 0 - 1, 0>>, <<0 - 1, 4, 0 - 1>>, <<0, 0 - 1, 0>>>>)
edgeDetection3 ==
  load(<<<<0 - 1, 0 - 1, 0 - 1>>, <<0 - 1, 8, 0 - 1>>, <<0 - 1, 0 - 1, 0 - 1>>>>)
kirschRight == load(<<<<0 - 3, 0 - 3, 5>>, <<0 - 3, 0, 5>>, <<0 - 3, 0 - 3, 5>>>>)
kirschTopRight == load(<<<<0 - 3, 5, 5>>, <<0 - 3, 0, 5>>, <<0 - 3, 0 - 3, 0 - 3>>>>)
kirschTop == load(<<<<5, 5, 5>>, <<0 - 3, 0, 0 - 3>>, <<0 - 3, 0 - 3, 0 - 3>>>>)
kirschTopLeft == load(<<<<5, 5, 0 - 3>>, <<5, 0, 0 - 3>>, <<0 - 3, 0 - 3, 0 - 3>>>>)
kirschLeft == load(<<<<5, 0 - 3, 0 - 3>>, <<5, 0, 0 - 3>>, <<5, 0 - 3, 0 - 3>>>>)
kirschBottomLeft == load(<<<<0 - 3, 0 - 3, 0 - 3>>, <<5, 0, 0 - 3>>, <<5, 5, 0 - 3>>>>)
kirschBottom == load(<<<<0 - 3, 0 - 3, 0 - 3>>, <<0 - 3, 0, 0 - 3>>, <<5, 5, 5>>>>)
kirschBottomRight == load(<<<<0 - 3, 0 - 3, 0 - 3>>, <<0 - 3, 0, 5>>, <<0 - 3, 5, 5>>>>)
sobelTop == load(<<<<1, 2, 1>>, <<0, 0, 0>>, <<0 - 1, 0 - 2, 0 - 1>>>>)
sobelLeft == load(<<<<1, 0, 0 - 1>>, <<2, 0, 0 - 2>>, <<1, 0, 0 - 1>>>>)
sobelBottom == load(<<<<0 - 1, 0 - 2, 0 - 1>>, <<0, 0, 0>>, <<1, 2, 1>>>>)

\* pascal(n): the loop for (i = 2; i < n; i++), ans after its first `turns`
\* turns; each turn builds newline from the sums of neighbours, then
\* unshift(1) and push(1).
RECURSIVE pascalLoop(_)
pascalLoop(turns) ==
  IF turns <= 0 THEN <<1, 1>>
  ELSE LET ans == pascalLoop(turns - 1)
           newline == [j \in 1..(Len(ans) - 1) |-> ans[j] + ans[j + 1]]
       IN <<1>> \o newline \o <<1>>

\* pascal(n) with one turn of the loop too many: n - 1 turns instead of n - 2.
pascalOneMore(n) ==
  IF n = 1 THEN <<1>>
  ELSE IF n = 2 THEN <<1, 1>>
  ELSE pascalLoop(n - 1)

pascal(n) ==
  IF n = 1 THEN <<1>>
  ELSE IF n = 2 THEN <<1, 1>>
  ELSE pascalLoop(n - 2)

\* sum += w[0].get(0, i) for i < size, from sum = 0; a get past the row's
\* end throws a RangeError (err), which ends gaussianBlur.
RECURSIVE gaussianSum(_, _)
gaussianSum(w0, n) ==
  IF n <= 0 THEN [sum |-> 0, err |-> "none"]
  ELSE LET s == gaussianSum(w0, n - 1)
       IN IF s.err # "none" THEN s
          ELSE IF ~InRange(w0, 0, n - 1) THEN [s EXCEPT !.err = "RangeError"]
          ELSE [s EXCEPT !.sum = FAdd(s.sum, cellValue(getPixel(w0, 0, n - 1)))]

\* gaussianBlur(size): the pair w = [w0, w1], or the error thrown.
gaussianBlur(size) ==
  LET row == pascal(size)
      w0 == load(<<row>>)
      w1 == load([x \in 1..Len(row) |-> <<row[x]>>])
      s == gaussianSum(w0, size)
      d0 == div(w0, s.sum)
      d1 == div(w1, s.sum)
  IN IF s.err # "none" THEN [w0 |-> w0, w1 |-> w1, err |-> s.err]
     ELSE IF d0.err # "none" THEN [w0 |-> w0, w1 |-> w1, err |-> d0.err]
     ELSE [w0 |-> d0.mat, w1 |-> d1.mat, err |-> d1.err]

prewittLeft == <<<<1, 0, 0 - 1>>, <<1, 0, 0 - 1>>, <<1, 0, 0 - 1>>>>
prewittRight == <<<<1, 1, 1>>, <<0, 0, 0>>, <<0 - 1, 0 - 1, 0 - 1>>>>
prewitt == mmul(load(prewittLeft), load(prewittRight))

(***************************************************************************)
(* Imager (src/src/Imager.js)                                              *)
(***************************************************************************)
clip(val, lo, hi) ==
  IF FLt(val, lo) THEN lo ELSE IF FGt(val, hi) THEN hi ELSE val

\* normalize(A): applyAll((i, j, k) => A.set(i, j, clip(A.get(i, j, k), 0, 1), k)).
normalize(M) ==
  [M EXCEPT !.m = [i \in 0..(M.rows - 1) |-> [j \in 0..(M.cols - 1) |->
      IF M.chls > 1
        THEN Pixel([x \in 1..Len(M.m[i][j].v) |->
                      IF x <= M.chls THEN clip(M.m[i][j].v[x], 0, Num(1))
                      ELSE M.m[i][j].v[x]])
        ELSE Scalar(clip(M.m[i][j].v[1], 0, Num(1)))]]]

\* The first test of convolution with && in place of ||.
kernelIsEvenBoth(w) == w.rows % 2 = 0 /\ w.cols % 2 = 0

\* The first test of convolution.
kernelIsEven(w) == w.rows % 2 = 0 \/ w.cols % 2 = 0

\* The channel test of convolution, after the broadcast.
chlsMismatch(A, w) == w.chls # A.chls /\ ~(A.chls = 4 /\ w.chls = 3)

\* The kernel as convolution leaves it before the flip: a 1-channel kernel
\* is extruded to the image's channel count when the image has more.
broadcast(A, w) ==
  IF w.chls = 1 /\ A.chls > 1 THEN extrude(w, A.chls) ELSE Ok(w)

\* The innermost two loops of convolution for one (i, j, k): the window
\* cells in the order wi, wj, each adding pad * w to the running value.
RECURSIVE window(_, _, _, _, _, _, _)
window(pad, w, i, j, k, n, acc) ==
  IF n >= CellCount(w) THEN acc
  ELSE window(pad, w, i, j, k, n + 1,
              FAdd(acc, FMul(get(pad, i + CellRow(w, n), j + CellCol(w, n), k),
                             get(w, CellRow(w, n), CellCol(w, n), k))))

\* The five loops of convolution on the accumulator: channels k < chls and
\* k < 3 of every cell; every index they read is in range once the channel
\* test has passed.
accumulate(accum, pad, w) ==
  [accum EXCEPT !.m = [i \in 0..(accum.rows - 1) |-> [j \in 0..(accum.cols - 1) |->
     Pixel([x \in 1..Len(accum.m[i][j].v) |->
              IF x - 1 < accum.chls /\ x - 1 < 3
                THEN window(pad, w, i, j, x - 1, 0, accum.m[i][j].v[x])
                ELSE accum.m[i][j].v[x]])]]]

\* convolution(A, w): the caller's A and w when the call ends, the error it
\* throws ("none": it returns) and the object it returns.
convolution(A, w) ==
  IF kernelIsEven(w) THEN [A |-> A, w |-> w, err |-> "ConvolutionError:odd", ret |-> "none"]
  ELSE LET wb == broadcast(A, w)
       IN IF wb.err # "none" THEN [A |-> A, w |-> wb.mat, err |-> wb.err, ret |-> "none"]
          ELSE IF chlsMismatch(A, wb.mat)
            THEN [A |-> A, w |-> wb.mat, err |-> "ConvolutionError:chls", ret |-> "none"]
          ELSE LET wf == flipXY(wb.mat)
                   hr == w.rows \div 2
                   hc == w.cols \div 2
                   accum == fillAlpha(zeros(A.rows, A.cols, A.chls), Num(1))
               IN IF accum.err # "none"
                    THEN [A |-> A, w |-> wf, err |-> accum.err, ret |-> "none"]
                  ELSE LET pad == copy(A, zeros(A.rows + hr * 2, A.cols + hc * 2, A.chls), hr, hc)
                           acc == normalize(accumulate(accum.mat, pad.mat, wf))
                           back == copy(acc, A, 0, 0)
                       IN [A |-> back.mat, w |-> wf, err |-> back.err,
                           ret |-> IF back.err = "none" THEN "A" ELSE "none"]

Min(a, b) == IF a < b THEN a ELSE b

\* The summing loops of pixelize for one block and one channel: the block's
\* cells from (i, j), bw columns wide, the first n of them added to acc.
RECURSIVE blockSum(_, _, _, _, _, _)
blockSum(M, i, j, bw, k, n) ==
  IF n = 0 THEN 0
  ELSE FAdd(blockSum(M, i, j, bw, k, n - 1),
            get(M, i + ((n - 1) \div bw), j + ((n - 1) % bw), k))

\* The writing loops of pixelize for one block: setPixel(i2, j2, r, g, b, 1)
\* on its first n cells.
RECURSIVE blockFill(_, _, _, _, _, _, _, _)
blockFill(M, i, j, bw, r, g, b, n) ==
  IF n = 0 THEN M
  ELSE setPixel(blockFill(M, i, j, bw, r, g, b, n - 1),
                i + ((n - 1) \div bw), j + ((n - 1) % bw), r, g, b, Num(1), TRUE).mat

\* The divisor of pixelize: const area = size * size.
area(size) == Num(size * size)

\* One turn of the two outer loops of pixelize: the block at (i, j).
pixelizeBlock(M, i, j, size) ==
  LET bh == Min(size, M.rows - i)
      bw == Min(size, M.cols - j)
      px(k) == FDiv(blockSum(M, i, j, bw, k, bh * bw), area(size))
  IN blockFill(M, i, j, bw, px(0), px(1), px(2), bh * bw)

\* The blocks in the order of the outer loops (i += size, j += size), the
\* first n of them done.
RECURSIVE pixelizeBlocks(_, _, _)
pixelizeBlocks(M, size, n) ==
  IF n = 0 THEN M
  ELSE LET nbc == (M.cols + size - 1) \div size
       IN pixelizeBlock(pixelizeBlocks(M, size, n - 1),
                        ((n - 1) \div nbc) * size, ((n - 1) % nbc) * size, size)

\* pixelize(A, size) for size >= 1.  A.get(i2, j2, k) throws a RangeError at
\* the first k >= chls, before anything is written.
pixelize(M, size) ==
  IF M.chls < 3 THEN Fail(M, "RangeError")
  ELSE Ok(pixelizeBlocks(M, size,
            ((M.rows + size - 1) \div size) * ((M.cols + size - 1) \div size)))

\* isWhite(): channels 3 or 4 and every color channel of every pixel 1.
isWhite(M) ==
  /\ ~(M.chls # 3 /\ M.chls # 4)
  /\ \A i \in 0..(M.rows - 1) : \A j \in 0..(M.cols - 1) : \A k \in 0..2 :
       ~(get(M, i, j, k) # Num(1))

\* A blend works on st = [A, B, err, msg]: the two matrices as they are, the
\* error thrown so far ("none": still running) and, of a thrown string, the
\* pieces it was concatenated from.  Every step leaves st as it
\* is once an error is thrown.
Half == FDiv(Num(1), Num(2))

\* The value a per-element blend stores, from a = A.get(i, j, k) and
\* b = B.get(i, j, k).
blendValue(op, a, b) ==
  CASE op = "addition" -> FAdd(a, b)
    [] op = "subtraction" -> FSub(a, b)
    [] op = "multiply" -> FMul(a, b)
    [] op = "divide" -> FDiv(a, b)
    [] op = "difference" -> FAbs(FAdd(a, b))
    [] op = "screen" -> FSub(Num(1), FMul(FSub(Num(1), a), FSub(Num(1), b)))
    [] op \in {"overlay", "hard"} ->
         IF FLt(a, Half)
           THEN FMul(FMul(Num(2), a), b)
           ELSE FSub(Num(1), FMul(FMul(Num(2), FSub(Num(1), a)), FSub(Num(1), b)))
    [] op = "soft" ->
         IF FLt(a, Half)
           THEN FAdd(FMul(FMul(Num(2), a), b),
                     FMul(FMul(a, a), FSub(Num(1), FMul(Num(2), b))))
           ELSE FAdd(FMul(FMul(Num(2), a), FSub(Num(1), b)),
                     FMul(FSqrt(a), FSub(FMul(Num(2), b), Num(1))))
    [] op = "burnLinear" -> FSub(FAdd(a, b), Num(1))
    [] op = "darken" -> FMin(a, b)
    [] op = "lighten" -> FMax(a, b)

\* A.applyAllPixels((i, j, k) => A.set(i, j, f(A.get(i, j, k), B.get(i, j, k)), k)):
\* the first n of the visits (i, j, k), k = 0..2 within each cell.  A get
\* outside its matrix throws a RangeError and ends the traversal there.
RECURSIVE applyAllPixels(_, _, _)
applyAllPixels(op, st, n) ==
  IF n = 0 THEN st
  ELSE LET s1 == applyAllPixels(op, st, n - 1)
           c == (n - 1) \div 3
           i == CellRow(s1.A, c)
           j == CellCol(s1.A, c)
           k == (n - 1) % 3
       IN IF s1.err # "none" THEN s1
          ELSE IF ~InRangeK(s1.A, i, j, k) \/ ~InRangeK(s1.B, i, j, k)
            THEN [s1 EXCEPT !.err = "RangeError"]
          ELSE [s1 EXCEPT !.A = set(s1.A, i, j,
                                    blendValue(op, get(s1.A, i, j, k), get(s1.B, i, j, k)), k)]

blend(op, st) == applyAllPixels(op, st, 3 * CellCount(st.A))

\* normal(A, B): the same traversal; each visit reads both alphas (channel
\* 3) and stores the composited color in channel k.
RECURSIVE normalPixels(_, _)
normalPixels(st, n) ==
  IF n = 0 THEN st
  ELSE LET s1 == normalPixels(st, n - 1)
           c == (n - 1) \div 3
           i == CellRow(s1.A, c)
           j == CellCol(s1.A, c)
           k == (n - 1) % 3
       IN IF s1.err # "none" THEN s1
          ELSE IF ~InRangeK(s1.A, i, j, 3) \/ ~InRangeK(s1.B, i, j, 3)
            THEN [s1 EXCEPT !.err = "RangeError"]
          ELSE LET Aa == get(s1.A, i, j, 3)
                   Ba == get(s1.B, i, j, 3)
                   nuA == FAdd(Aa, FMul(Ba, FSub(Num(1), Aa)))
               IN [s1 EXCEPT !.A = set(s1.A, i, j,
                     FDiv(FAdd(FMul(get(s1.A, i, j, k), Aa),
                               FMul(FMul(get(s1.B, i, j, k), Ba), FSub(Num(1), Aa))),
                          nuA), k)]

normal(st) == normalPixels(st, 3 * CellCount(st.A))

\* invert(M): setPixel(i, j, 1 - get(i, j, 0), 1 - get(i, j, 1), 1 - get(i, j, 2))
\* on every cell; with fewer than 3 channels the first cell's reads throw.
invert(M) ==
  IF M.chls < 3 THEN Fail(M, "RangeError")
  ELSE Ok([M EXCEPT !.m = [i \in 0..(M.rows - 1) |-> [j \in 0..(M.cols - 1) |->
         setPixel(M, i, j, FSub(Num(1), get(M, i, j, 0)), FSub(Num(1), get(M, i, j, 1)),
                  FSub(Num(1), get(M, i, j, 2)), 0, FALSE).mat.m[i][j]]]])

invertA(st) ==
  IF st.err # "none" THEN st
  ELSE LET r == invert(st.A) IN [st EXCEPT !.A = r.mat, !.err = r.err]

invertB(st) ==
  IF st.err # "none" THEN st
  ELSE LET r == invert(st.B) IN [st EXCEPT !.B = r.mat, !.err = r.err]

\* dodge(A, B, type)
dodgeColor(st) == invertB(blend("divide", invertB(st)))

dodge(type, st) ==
  CASE type = "screen" -> invertB(invertA(blend("multiply", invertB(invertA(st)))))
    [] type \in {"color", "divide"} ->
         IF type = "divide" /\ isWhite(st.B) THEN st ELSE dodgeColor(st)
    [] type = "linear" -> blend("addition", st)
    [] OTHER -> [st EXCEPT !.err = "DodgeError",
                            !.msg = <<"DodgeError: ", type, " is not an accepted type for dodge().">>]

\* burn(A, B, type)
burn(type, st) ==
  IF st.err # "none" THEN st
  ELSE CASE type \in {"multiply", "linear"} ->
              blend(IF type = "multiply" THEN "multiply" ELSE "burnLinear", st)
         [] type = "color" -> invertA(blend("divide", invertA(st)))
         [] OTHER -> [st EXCEPT !.err = "BurnError",
                                 !.msg = <<"BurnError: ", type, " is not an accepted type for burn().">>]

\* light(A, B, type) without the burn of 'vivid' and 'linear'.
lightDodgeOnly(type, st) ==
  CASE type \in {"soft", "hard"} -> blend(type, st)
    [] type \in {"vivid", "linear"} ->
         dodge(IF type = "vivid" THEN "color" ELSE "linear", st)
    [] OTHER -> [st EXCEPT !.err = "LightError",
                            !.msg = <<"LightError: ", type, " is not an accepted type for light().">>]

\* light(A, B, type)
light(type, st) ==
  CASE type \in {"soft", "hard"} -> blend(type, st)
    [] type \in {"vivid", "linear"} ->
         LET mode == IF type = "vivid" THEN "color" ELSE "linear"
         IN burn(mode, dodge(mode, st))
    [] OTHER -> [st EXCEPT !.err = "LightError",
                            !.msg = <<"LightError: ", type, " is not an accepted type for light().">>]

(***************************************************************************)
(* The filters of Imager.  Each returns [mat, err, msg]: A as the call     *)
(* left it, the error thrown ("none": returned A) and, of a thrown string, *)
(* the pieces it was concatenated from.                                    *)
(***************************************************************************)
\* this.convolution(A, Kernel.x()): the kernel is the call's own.
convolveWith(M, k) ==
  LET r == convolution(M, k) IN [mat |-> r.A, err |-> r.err, msg |-> <<>>]

Thrown(M, e, parts) == [mat |-> M, err |-> e, msg |-> parts]

\* gray(A, type); type "none" stands for an argument left out or null.
grayValue(type, r, g, b) ==
  IF type = "ITU-R"
    THEN FAdd(FAdd(FMul(r, Fl(299, 1000)), FMul(g, Fl(587, 1000))), FMul(b, Fl(114, 1000)))
    ELSE FDiv(FAdd(FAdd(r, g), b), Num(3))

gray(M, type) ==
  IF type \notin {"ITU-R", "normal", "none"}
    THEN Thrown(M, "GrayError", <<"GrayError: ", type, " is not an accepted type for gray.">>)
  ELSE IF M.chls < 3 THEN Thrown(M, "RangeError", <<>>)
  ELSE [mat |-> [M EXCEPT !.m = [i \in 0..(M.rows - 1) |-> [j \in 0..(M.cols - 1) |->
                   LET v == grayValue(type, get(M, i, j, 0), get(M, i, j, 1), get(M, i, j, 2))
                   IN setPixel(M, i, j, v, v, v, 0, FALSE).mat.m[i][j]]]],
        err |-> "none", msg |-> <<>>]

\* edgeDetect(A, level)
edgeDetect(M, level) ==
  IF level \in {1, 2, 3}
    THEN convolveWith(M, CASE level = 1 -> edgeDetection1
                           [] level = 2 -> edgeDetection2
                           [] level = 3 -> edgeDetection3)
    ELSE Thrown(M, "EdgeDectectionError",
           <<"EdgeDectectionError: ", ToString(level), " is not an accepted level.">>)

\* kirsch(A, mode)
kirsch(M, mode) ==
  IF mode \in {"right", "topRight", "top", "topLeft", "left", "bottomLeft", "bottom",
               "bottomRight"}
    THEN convolveWith(M, CASE mode = "right" -> kirschRight
                           [] mode = "topRight" -> kirschTopRight
                           [] mode = "top" -> kirschTop
                           [] mode = "topLeft" -> kirschTopLeft
                           [] mode = "left" -> kirschLeft
                           [] mode = "bottomLeft" -> kirschBottomLeft
                           [] mode = "bottom" -> kirschBottom
                           [] mode = "bottomRight" -> kirschBottomRight)
    ELSE Thrown(M, "KirschError",
           <<"KirschError: ", mode, " is not an accepted kirsch mode.">>)

\* sobel(A, mode) with its last branch taking the kernel of 'right'.
sobelDefaultsRight(M, mode) ==
  convolveWith(M, CASE mode = "top" -> sobelTop
                    [] mode = "left" -> sobelLeft
                    [] mode = "bottom" -> sobelBottom
                    [] OTHER -> sobelRight)

\* sobel(A, mode)
sobel(M, mode) ==
  IF mode \in {"right", "top", "left", "bottom"}
    THEN convolveWith(M, CASE mode = "right" -> sobelRight
                           [] mode = "top" -> sobelTop
                           [] mode = "left" -> sobelLeft
                           [] mode = "bottom" -> sobelBottom)
    ELSE Thrown(M, "SobelError",
           <<"SobelError: ", mode, " is not an accepted sobel mode.">>)

\* unsharp(A, size): this.getKernel is not a member of Imager, so the call
\* of it throws a TypeError before convolution is entered.
unsharp(M, size) == Thrown(M, "TypeError", <<>>)

\* The forEach of blur(A, 'gaussian', size) with the pair in the other order.
gaussianColumnFirst(M, g) ==
  LET first == convolveWith(M, g.w1)
  IN IF first.err # "none" THEN first ELSE convolveWith(first.mat, g.w0)

\* Kernel.gaussianBlur(size).forEach(w => this.convolution(A, w))
gaussianPasses(M, g) ==
  LET first == convolveWith(M, g.w0)
  IN IF first.err # "none" THEN first ELSE convolveWith(first.mat, g.w1)

\* blur(A, mode, size)
blur(M, mode, size) ==
  CASE mode = "gaussian" ->
         LET g == gaussianBlur(size)
         IN IF g.err # "none" THEN Thrown(M, g.err, <<>>) ELSE gaussianPasses(M, g)
    [] mode = "box" -> convolveWith(M, boxBlur)
    [] OTHER -> Thrown(M, "BlurError",
                  <<"BlurError: ", mode, " is not an accepted type for light().">>)

\* The body of crop with the offsets given: new Matrix(|x2 - x1|, |y2 - y1|,
\* A.getChls()), then crop.set(i, j, A.get(i + offX, j + offY)) for every
\* cell. A size of 0 is refused by generate (TypeError); a get outside A
\* throws a RangeError.
cropAt(M, rows, cols, offX, offY) ==
  IF generateErr(rows, cols, M.chls) # "none"
    THEN Fail(M, generateErr(rows, cols, M.chls))
  ELSE IF \E i \in 0..(rows - 1), j \in 0..(cols - 1) : ~InRange(M, i + offX, j + offY)
    THEN Fail(M, "RangeError")
  ELSE Ok([rows |-> rows, cols |-> cols, chls |-> M.chls,
           m |-> [i \in 0..(rows - 1) |-> [j \in 0..(cols - 1) |->
                    getPixel(M, i + offX, j + offY)]]])

\* crop with the first corner taken as the offset.
cropFromFirst(M, x1, y1, x2, y2) ==
  cropAt(M, Abs(x2 - x1), Abs(y2 - y1), x1, y1)

\* crop(A, x1, y1, x2, y2): offX = Math.min(x1, x2), offY = Math.min(y1, y2).
crop(M, x1, y1, x2, y2) ==
  cropAt(M, Abs(x2 - x1), Abs(y2 - y1), Min(x1, x2), Min(y1, y2))

\* new Uint8Array(flat): every number is truncated and reduced modulo 256;
\* NaN and the infinities become 0.
ToUint8(x) == IF ~IsFinite(x) THEN 0 ELSE (parseInt(x) \div One) % 256

\* ndarray(data, shape): a contiguous view, row-major strides, offset 0.
ndarray(data, shape) ==
  [shape |-> shape, data |-> data, offset |-> 0,
   stride |-> <<shape[2] * shape[3], shape[3], 1>>]

\* stream.data[offset + stride[0] * i + stride[1] * j + stride[2] * k].
sample(st, i, j, k) ==
  st.data[st.offset + st.stride[1] * i + st.stride[2] * j + st.stride[3] * k + 1]

\* convert2Matrix(stream): new Matrix(shape), m.set(i, j, sample, k) for
\* every index, then m.div(255). With one channel the matrix holds bare
\* numbers, and the first m[i][j][0] = v on a number is a TypeError (class
\* bodies are strict code).
convert2Matrix(st) ==
  LET rows == st.shape[1]
      cols == st.shape[2]
      chls == st.shape[3]
  IN IF generateErr(rows, cols, chls) # "none"
       THEN Fail(zeros(1, 1, 1), generateErr(rows, cols, chls))
     ELSE IF ~(chls > 1) THEN Fail(generate(rows, cols, chls, 0), "TypeError")
     ELSE div([rows |-> rows, cols |-> cols, chls |-> chls,
               m |-> [i \in 0..(rows - 1) |-> [j \in 0..(cols - 1) |->
                        Pixel([x \in 1..chls |-> Num(sample(st, i, j, x - 1))])]]],
              Num(255))

\* convert2Stream(A): ndarray(new Uint8Array(A.mul(255).toInt().flatten()),
\* [rows, cols, chls]), then A.div(255); A keeps the truncated values.
convert2Stream(M) ==
  LET ints == toInt(mul(M, Num(255)))
  IN [stream |-> ndarray([x \in DOMAIN flatten(ints) |-> ToUint8(flatten(ints)[x])],
                         <<M.rows, M.cols, M.chls>>),
      mat |-> div(ints, Num(255)).mat]

(***************************************************************************)
(* The caller's objects and the inputs the model draws.                    *)
(***************************************************************************)
VARIABLES A, B, w, pre, call, out, calls, stream, pc, alias

vars == <<A, B, w, pre, call, out, calls, stream, pc, alias>>

\* Pixel values of an image, all in [0, 1]: 0, 1, 0.5, 0.1, 0.25, 0.75.
Sample(n) ==
  LET t == <<0, One, One \div 2, Fl(One, 10), One \div 4, 3 * (One \div 4)>>
  IN t[(n % Len(t)) + 1]

\* Kernel weights: 1, 0, -1, 2, 0.5, -3.
Weight(n) ==
  LET t == <<Num(1), 0, Num(0 - 1), Num(2), One \div 2, Num(0 - 3)>>
  IN t[(n % Len(t)) + 1]

\* An image, as generate builds it and set fills it: every pixel the same
\* color (flat) or a different one per cell.
image(rows, cols, chls, seed, flat) ==
  LET F(i, j, k) == Sample(seed + k + (IF flat THEN 0 ELSE 2 * i + 3 * j))
  IN [rows |-> rows, cols |-> cols, chls |-> chls,
      m |-> [i \in 0..(rows - 1) |-> [j \in 0..(cols - 1) |->
               IF chls > 1 THEN Pixel([x \in 1..chls |-> F(i, j, x - 1)])
               ELSE Scalar(F(i, j, 0))]]]

\* A kernel, built the same way from the weights.
kernel(rows, cols, chls, seed) ==
  LET F(i, j, k) == Weight(seed + 3 * i + j + 2 * k)
  IN [rows |-> rows, cols |-> cols, chls |-> chls,
      m |-> [i \in 0..(rows - 1) |-> [j \in 0..(cols - 1) |->
               IF chls > 1 THEN Pixel([x \in 1..chls |-> F(i, j, x - 1)])
               ELSE Scalar(F(i, j, 0))]]]

Images(chlsSet) ==
  { image(r, c, n, s, f) : r \in 1..MaxRows, c \in 1..MaxCols, n \in chlsSet,
                           s \in 0..(NSeeds - 1), f \in BOOLEAN }

KernelShapes ==
  { <<1, 1>>, <<1, 3>>, <<3, 1>>, <<3, 3>>,
    <<2, 1>>, <<1, 2>>, <<2, 2>>, <<3, 2>>, <<2, 3>>, <<4, 4>>, <<3, 4>> }

Kernels ==
  { identity, emboss, sobelRight, boxBlur }
    \cup { kernel(sh[1], sh[2], n, 0) : sh \in KernelShapes, n \in 1..4 }

Unused == zeros(1, 1, 1)
NoCall == [op |-> "none", mode |-> "none", size |-> 0]
NoOut == [err |-> "none", ret |-> "none", msg |-> <<>>]
\* No call is running.
Idle == [at |-> "idle", i |-> 0, j |-> 0, turns |-> 0]
NoStream == [shape |-> <<0, 0, 0>>, data |-> <<>>, offset |-> 0, stride |-> <<0, 0, 0>>]

InitConv ==
  /\ A \in Images({1, 3, 4})
  /\ w \in Kernels
  /\ B = Unused
  /\ pre = [A |-> A, B |-> B, w |-> w]
  /\ call = NoCall
  /\ calls = 0
  /\ alias = {}
  /\ pc = Idle
  /\ stream = NoStream
  /\ out = NoOut

\* imager.convolution(A, w)
Convolve ==
  /\ call.op = "none"
  /\ calls' = calls + 1
  /\ UNCHANGED alias
  /\ UNCHANGED pc
  /\ UNCHANGED stream
  /\ LET r == convolution(A, w)
     IN /\ A' = r.A
        /\ w' = r.w
        /\ out' = [err |-> r.err, ret |-> r.ret, msg |-> <<>>]
  /\ pre' = [A |-> A, B |-> B, w |-> w]
  /\ call' = [op |-> "convolution", mode |-> "none", size |-> 0]
  /\ UNCHANGED B

NextConv == Convolve

SpecConv == InitConv /\ [][NextConv]_vars

(***************************************************************************)
(* Claims about convolution (checked under SpecConv)                       *)
(***************************************************************************)
Cells(M) == (0..(M.rows - 1)) \X (0..(M.cols - 1))
SameShape(M, N) == M.rows = N.rows /\ M.cols = N.cols /\ M.chls = N.chls
In01(M) ==
  \A c \in Cells(M) : \A x \in 1..Len(M.m[c[1]][c[2]].v) :
    LET v == M.m[c[1]][c[2]].v[x] IN IsFinite(v) /\ 0 <= v /\ v <= One
OddKernel(k) == k.rows % 2 = 1 /\ k.cols % 2 = 1
Convolved == call.op = "convolution"

\* C1: convolving a 3- or 4-channel image with values in [0, 1] with the
\* identity kernel completes without error, leaves channels 0..2 of every
\* pixel as they were and sets the alpha channel, when present, to 1.
C1_IdentityKeepsColors ==
  (Convolved /\ pre.w = identity /\ pre.A.chls \in {3, 4} /\ In01(pre.A)) =>
    /\ out.err = "none"
    /\ SameShape(A, pre.A)
    /\ \A c \in Cells(pre.A) :
         /\ \A k \in 0..2 : get(A, c[1], c[2], k) = get(pre.A, c[1], c[2], k)
         /\ pre.A.chls = 4 => get(A, c[1], c[2], 3) = One

\* What C1 says, on the RGBA images only: there the code does it.
C1_HoldsOnRGBA ==
  (Convolved /\ pre.w = identity /\ pre.A.chls = 4 /\ In01(pre.A)) =>
    /\ out.err = "none"
    /\ SameShape(A, pre.A)
    /\ \A c \in Cells(pre.A) :
         /\ \A k \in 0..2 : get(A, c[1], c[2], k) = get(pre.A, c[1], c[2], k)
         /\ get(A, c[1], c[2], 3) = One

\* The 3-channel call of C1 as the code ends it: a RangeError, A untouched.
C1_RGBFails ==
  (Convolved /\ pre.w = identity /\ pre.A.chls = 3) =>
    out.err = "RangeError" /\ A = pre.A

\* The zero-padded image P of C2, read at padded position (x, y).
Padded(M, hr, hc, x, y, c) ==
  IF x - hr >= 0 /\ x - hr < M.rows /\ y - hc >= 0 /\ y - hc < M.cols
    THEN M.m[x - hr][y - hc].v[c + 1]
    ELSE 0

\* The weight of kernel k at (a, b) for channel c, a 1-channel kernel
\* standing for the same weight in every channel.
WeightAt(k, a, b, c) ==
  IF k.chls = 1 THEN k.m[a][b].v[1] ELSE k.m[a][b].v[c + 1]

\* sum over a in 0..KR-1, b in 0..KC-1 of P[i+a][j+b][c] * w[KR-1-a][KC-1-b][c],
\* the terms added in the order of a, then b.
RECURSIVE FlippedSum(_, _, _, _, _, _)
FlippedSum(M, k, i, j, c, n) ==
  IF n = 0 THEN 0
  ELSE LET a == (n - 1) \div k.cols
           b == (n - 1) % k.cols
       IN FAdd(FlippedSum(M, k, i, j, c, n - 1),
               FMul(Padded(M, k.rows \div 2, k.cols \div 2, i + a, j + b, c),
                    WeightAt(k, k.rows - 1 - a, k.cols - 1 - b, c)))

Clamp01(x) == IF x < 0 THEN 0 ELSE IF x > One THEN One ELSE x

\* C2: for an RGBA image and an odd-sized kernel (of 1, 3 or 4 channels,
\* the kernels the formula is defined for), convolve returns A itself, of
\* unchanged dimensions, every color channel holding the clamped sum of the
\* zero-padded image against the 180-degree flipped kernel as it was before
\* the call, and every alpha 1.
C2_ConvolutionFormula ==
  (Convolved /\ pre.A.chls = 4 /\ OddKernel(pre.w) /\ pre.w.chls \in {1, 3, 4}) =>
    /\ out.err = "none" /\ out.ret = "A"
    /\ SameShape(A, pre.A)
    /\ \A c \in Cells(pre.A) :
         /\ A.m[c[1]][c[2]].arr /\ Len(A.m[c[1]][c[2]].v) = 4
         /\ \A k \in 0..2 :
              A.m[c[1]][c[2]].v[k + 1] =
                Clamp01(FlippedSum(pre.A, pre.w, c[1], c[2], k, pre.w.rows * pre.w.cols))
         /\ A.m[c[1]][c[2]].v[4] = One

\* A 3x3 kernel that its 180-degree rotation changes, applied to a 2-column
\* RGBA image whose colors the call changed.
C2_Witness ==
  /\ Convolved /\ pre.A.chls = 4 /\ pre.A.cols > 1 /\ out.err = "none"
  /\ pre.w.rows = 3 /\ pre.w.cols = 3 /\ pre.w.chls = 3
  /\ pre.w.m[0][0] # pre.w.m[2][2]
  /\ \E c \in Cells(A) : A.m[c[1]][c[2]].v[1] # pre.A.m[c[1]][c[2]].v[1]

\* C3: with an odd-sized kernel, convolve fails with the channel-mismatch
\* error exactly when the kernel's channel count after the broadcast differs
\* from the image's and the pair is not (4, 3); in every other case it
\* completes without error.
C3_MismatchExactly ==
  (Convolved /\ OddKernel(pre.w)) =>
    LET kc == IF pre.w.chls = 1 /\ pre.A.chls > 1 THEN pre.A.chls ELSE pre.w.chls
        mismatch == kc # pre.A.chls /\ ~(pre.A.chls = 4 /\ kc = 3)
    IN /\ mismatch => out.err = "ConvolutionError:chls"
       /\ ~mismatch => out.err = "none"

\* The half of C3 the code keeps: the mismatch error is thrown exactly in
\* the cases C3 names.
C3_MismatchErrorOnly ==
  (Convolved /\ OddKernel(pre.w)) =>
    LET kc == IF pre.w.chls = 1 /\ pre.A.chls > 1 THEN pre.A.chls ELSE pre.w.chls
        mismatch == kc # pre.A.chls /\ ~(pre.A.chls = 4 /\ kc = 3)
    IN mismatch <=> out.err = "ConvolutionError:chls"

\* C4: a kernel with an even row or column count makes convolve fail with
\* the validation error, the image and the kernel both as before the call.
C4_EvenKernelRejected ==
  (Convolved /\ (pre.w.rows % 2 = 0 \/ pre.w.cols % 2 = 0)) =>
    /\ out.err = "ConvolutionError:odd"
    /\ out.ret = "none"
    /\ A = pre.A
    /\ w = pre.w

\* A 3x4 single-channel kernel (odd rows, even columns) given with an RGBA
\* image, which a broadcast would have extruded: the call failed.
C4_Witness ==
  /\ Convolved /\ pre.w.rows = 3 /\ pre.w.cols = 4 /\ pre.w.chls = 1
  /\ pre.A.chls = 4 /\ out.err = "ConvolutionError:odd"

(***************************************************************************)
(* pixelize                                                                *)
(***************************************************************************)
InitPix ==
  /\ A \in Images({1, 3, 4})
  /\ B = Unused
  /\ w = Unused
  /\ pre = [A |-> A, B |-> B, w |-> w]
  /\ call = NoCall
  /\ calls = 0
  /\ alias = {}
  /\ pc = Idle
  /\ stream = NoStream
  /\ out = NoOut

\* imager.pixelize(A, size)
Pixelize ==
  /\ call.op = "none"
  /\ calls' = calls + 1
  /\ UNCHANGED alias
  /\ UNCHANGED pc
  /\ UNCHANGED stream
  /\ \E size \in 1..MaxSize :
       LET r == pixelize(A, size)
       IN /\ A' = r.mat
          /\ out' = [err |-> r.err, ret |-> IF r.err = "none" THEN "A" ELSE "none", msg |-> <<>>]
          /\ call' = [op |-> "pixelize", mode |-> "none", size |-> size]
  /\ pre' = [A |-> A, B |-> B, w |-> w]
  /\ UNCHANGED <<B, w>>

NextPix == Pixelize

SpecPix == InitPix /\ [][NextPix]_vars

Pixelized == call.op = "pixelize"

\* The sum of channel k of M over rows r0..r1 and columns c0..c1, row by row.
RECURSIVE RectSum(_, _, _, _, _, _, _)
RectSum(M, r0, r1, c0, c1, k, n) ==
  IF n = 0 THEN 0
  ELSE FAdd(RectSum(M, r0, r1, c0, c1, k, n - 1),
            M.m[r0 + ((n - 1) \div (c1 - c0 + 1))][c0 + ((n - 1) % (c1 - c0 + 1))].v[k + 1])

\* The arithmetic mean of channel k over the pixels of M that belong to the
\* size-by-size block of cell (x, y).
OwnBlockMean(M, size, x, y, k) ==
  LET r0 == (x \div size) * size
      c0 == (y \div size) * size
      r1 == Min(r0 + size, M.rows) - 1
      c1 == Min(c0 + size, M.cols) - 1
      count == (r1 - r0 + 1) * (c1 - c0 + 1)
  IN FDiv(RectSum(M, r0, r1, c0, c1, k, count), Num(count))

\* C5: pixelize sets R, G, B of every pixel to the mean of that channel over
\* the pixels that belong to the pixel's block, truncated edge blocks
\* included (their mean taken over their own, fewer, pixels).
C5_BlockMean ==
  (Pixelized /\ pre.A.chls >= 3) =>
    /\ out.err = "none"
    /\ \A c \in Cells(pre.A) : \A k \in 0..2 :
         get(A, c[1], c[2], k) = OwnBlockMean(pre.A, call.size, c[1], c[2], k)

\* C5 where size divides rows and cols: every block is whole, and the code
\* does what C5 says.
C5_HoldsOnWholeBlocks ==
  (Pixelized /\ pre.A.chls >= 3
     /\ pre.A.rows % call.size = 0 /\ pre.A.cols % call.size = 0) =>
    /\ out.err = "none"
    /\ \A c \in Cells(pre.A) : \A k \in 0..2 :
         get(A, c[1], c[2], k) = OwnBlockMean(pre.A, call.size, c[1], c[2], k)

Uniform(M) ==
  \A c \in Cells(M) : \A k \in 0..2 : get(M, c[1], c[2], k) = get(M, 0, 0, k)

\* C6: on an image whose pixels all hold the same color, pixelize is a
\* no-op for every size >= 1: every value of A is as before the call.
C6_UniformNoOp ==
  (Pixelized /\ pre.A.chls >= 3 /\ Uniform(pre.A)) =>
    out.err = "none" /\ A = pre.A

\* C6 for the color channels alone (leaving out the alpha channel, which
\* pixelize sets to 1).
C6_UniformKeepsColors ==
  (Pixelized /\ pre.A.chls >= 3 /\ Uniform(pre.A)) =>
    \A c \in Cells(pre.A) : \A k \in 0..2 :
      get(A, c[1], c[2], k) = get(pre.A, c[1], c[2], k)

(***************************************************************************)
(* The blend operators                                                     *)
(***************************************************************************)
LightModes == {"soft", "hard", "vivid", "linear", "bogus"}
DodgeModes == {"screen", "color", "linear", "divide", "bogus"}
BurnModes == {"multiply", "color", "linear", "bogus"}

InitBlend ==
  /\ A \in Images({4})
  /\ B \in Images({4})
  /\ B.rows = A.rows /\ B.cols = A.cols
  /\ w = Unused
  /\ pre = [A |-> A, B |-> B, w |-> w]
  /\ call = NoCall
  /\ calls = 0
  /\ alias = {}
  /\ pc = Idle
  /\ stream = NoStream
  /\ out = NoOut

Start == [A |-> A, B |-> B, err |-> "none", msg |-> <<>>]

\* The end of a blend call that left st: A and B as the call left them, the
\* error thrown or the returned object (every operator returns A).
Blended(op, mode, st) ==
  /\ call.op = "none"
  /\ calls' = calls + 1
  /\ UNCHANGED alias
  /\ UNCHANGED pc
  /\ UNCHANGED stream
  /\ A' = st.A
  /\ B' = st.B
  /\ out' = [err |-> st.err, ret |-> IF st.err = "none" THEN "A" ELSE "none", msg |-> st.msg]
  /\ call' = [op |-> op, mode |-> mode, size |-> 0]
  /\ pre' = [A |-> A, B |-> B, w |-> w]
  /\ UNCHANGED w

Addition == Blended("addition", "none", blend("addition", Start))
Subtraction == Blended("subtraction", "none", blend("subtraction", Start))
Multiply == Blended("multiply", "none", blend("multiply", Start))
Divide == Blended("divide", "none", blend("divide", Start))
Difference == Blended("difference", "none", blend("difference", Start))
Screen == Blended("screen", "none", blend("screen", Start))
Overlay == Blended("overlay", "none", blend("overlay", Start))
Normal == Blended("normal", "none", normal(Start))
Light == \E type \in LightModes : Blended("light", type, light(type, Start))
Dodge == \E type \in DodgeModes : Blended("dodge", type, dodge(type, Start))
Burn == \E type \in BurnModes : Blended("burn", type, burn(type, Start))
Darken == Blended("darken", "none", blend("darken", Start))
Lighten == Blended("lighten", "none", blend("lighten", Start))

NextBlend ==
  \/ Addition \/ Subtraction \/ Multiply \/ Divide \/ Difference
  \/ Screen \/ Overlay \/ Normal \/ Light \/ Dodge \/ Burn
  \/ Darken \/ Lighten

SpecBlend == InitBlend /\ [][NextBlend]_vars

Color(M, c, k) == M.m[c[1]][c[2]].v[k + 1]
Alpha(M, c) == M.m[c[1]][c[2]].v[4]
RGBAPair(M, N) == M.chls = 4 /\ N.chls = 4 /\ M.rows = N.rows /\ M.cols = N.cols
AllFinite(M) ==
  \A c \in Cells(M) : \A x \in 1..Len(M.m[c[1]][c[2]].v) : IsFinite(M.m[c[1]][c[2]].v[x])

\* C7: divide(A, B) fails with a division-by-zero error whenever some color
\* channel of some pixel of B is 0, and never stores a quotient by zero (an
\* infinity or a NaN) into A.
C7_DivideByZeroFails ==
  (call.op = "divide" /\ AllFinite(pre.A)
     /\ \E c \in Cells(pre.B) : \E k \in 0..2 : Color(pre.B, c, k) = 0) =>
    /\ out.err # "none"
    /\ AllFinite(A)

\* What the code does in the case of C7: it returns A, and the cell divided
\* by zero holds an infinity or a NaN.
C7_CodeStoresTheQuotient ==
  (call.op = "divide" /\ AllFinite(pre.A)) =>
    /\ out.err = "none" /\ out.ret = "A"
    /\ \A c \in Cells(pre.B) : \A k \in 0..2 :
         Color(pre.B, c, k) = 0 => ~IsFinite(Color(A, c, k))

WithAcceptedMode ==
  \/ call.op \in {"addition", "subtraction", "multiply", "divide", "difference",
                  "screen", "overlay", "darken", "lighten"}
  \/ call.op \in {"light", "dodge", "burn"} /\ call.mode # "bogus"

\* C8: every blend operator other than normal, in each accepted mode, on two
\* RGBA matrices of equal dimensions leaves A's alpha channel and every
\* value of B as before the call, and returns A.
C8_BlendFrame ==
  (WithAcceptedMode /\ RGBAPair(pre.A, pre.B)) =>
    /\ out.err = "none" /\ out.ret = "A"
    /\ SameShape(A, pre.A)
    /\ \A c \in Cells(pre.A) : Alpha(A, c) = Alpha(pre.A, c)
    /\ B = pre.B

\* The modes whose code inverts B and inverts it back.
InvertsB ==
  \/ call.op = "dodge" /\ call.mode \in {"screen", "color", "divide"}
  \/ call.op = "light" /\ call.mode = "vivid"

\* C8 without those modes, and C8 without its clause on B's colors: both
\* hold, and where B is inverted twice each color b of B ends as
\* 1 - (1 - b), rounded twice.
C8_HoldsWithoutInversion ==
  (WithAcceptedMode /\ ~InvertsB /\ RGBAPair(pre.A, pre.B)) =>
    /\ out.err = "none" /\ out.ret = "A"
    /\ \A c \in Cells(pre.A) : Alpha(A, c) = Alpha(pre.A, c)
    /\ B = pre.B

C8_InversionRoundsB ==
  (WithAcceptedMode /\ InvertsB /\ RGBAPair(pre.A, pre.B)) =>
    /\ out.err = "none" /\ out.ret = "A"
    /\ \A c \in Cells(pre.A) :
         /\ Alpha(A, c) = Alpha(pre.A, c)
         /\ Alpha(B, c) = Alpha(pre.B, c)
         /\ \A k \in 0..2 :
              \/ Color(B, c, k) = Color(pre.B, c, k)
              \/ /\ call.mode = "divide" => ~isWhite(pre.B)
                 /\ Color(B, c, k) = FSub(One, FSub(One, Color(pre.B, c, k)))
                 /\ Abs(Color(B, c, k) - Color(pre.B, c, k)) * Pow2(Prec + 1) <= One

ResultAlpha(M, N, c) == FAdd(Alpha(M, c), FMul(Alpha(N, c), FSub(One, Alpha(M, c))))

ResultColor(M, N, c, k) ==
  FDiv(FAdd(FMul(Color(M, c, k), Alpha(M, c)),
            FMul(FMul(Color(N, c, k), Alpha(N, c)), FSub(One, Alpha(M, c)))),
       ResultAlpha(M, N, c))

C9_CodeKeepsAlpha ==
  (call.op = "normal" /\ RGBAPair(pre.A, pre.B)
     /\ \A c \in Cells(pre.A) : ResultAlpha(pre.A, pre.B, c) # 0) =>
    /\ out.err = "none"
    /\ \A c \in Cells(pre.A) :
         /\ \A k \in 0..2 : Color(A, c, k) = ResultColor(pre.A, pre.B, c, k)
         /\ Alpha(A, c) = Alpha(pre.A, c)

(***************************************************************************)
(* Matrix product                                                          *)
(***************************************************************************)
Matrices ==
  { kernel(r, c, 1, s) : r \in 1..MaxRows, c \in 1..MaxCols, s \in 0..(NSeeds - 1) }

InitMat ==
  /\ A \in Matrices
  /\ B \in Matrices
  /\ w = Unused
  /\ pre = [A |-> A, B |-> B, w |-> w]
  /\ call = NoCall
  /\ calls = 0
  /\ alias = {}
  /\ pc = Idle
  /\ stream = NoStream
  /\ out = NoOut

\* A.mmul(B)
MatMul ==
  /\ call.op = "none"
  /\ calls' = calls + 1
  /\ UNCHANGED alias
  /\ UNCHANGED pc
  /\ UNCHANGED stream
  /\ LET r == mmul(A, B)
     IN /\ A' = r.mat
        /\ out' = [err |-> r.err, ret |-> IF r.err = "none" THEN "A" ELSE "none", msg |-> <<>>]
  /\ call' = [op |-> "mmul", mode |-> "none", size |-> 0]
  /\ pre' = [A |-> A, B |-> B, w |-> w]
  /\ UNCHANGED <<B, w>>

\* w = kernels.prewitt()
Prewitt ==
  /\ call.op = "none"
  /\ calls' = calls + 1
  /\ UNCHANGED alias
  /\ UNCHANGED pc
  /\ UNCHANGED stream
  /\ w' = prewitt.mat
  /\ out' = [err |-> prewitt.err, ret |-> IF prewitt.err = "none" THEN "w" ELSE "none",
             msg |-> <<>>]
  /\ call' = [op |-> "prewitt", mode |-> "none", size |-> 0]
  /\ pre' = [A |-> A, B |-> B, w |-> w]
  /\ UNCHANGED <<A, B>>

NextMat == MatMul \/ Prewitt

SpecMat == InitMat /\ [][NextMat]_vars

Entry(M, i, j) == M.m[i][j].v[1]

\* sum over k < n of M[i][k] * N[k][j]
RECURSIVE Dot(_, _, _, _, _)
Dot(M, N, i, j, n) ==
  IF n = 0 THEN 0
  ELSE FAdd(Dot(M, N, i, j, n - 1), FMul(Entry(M, i, n - 1), Entry(N, n - 1, j)))

\* The r x p matrix P holds the standard product of M (r x c) by N (c x p).
IsProduct(P, M, N) ==
  /\ P.rows = M.rows /\ P.cols = N.cols /\ P.chls = 1
  /\ DOMAIN P.m = 0..(M.rows - 1)
  /\ \A i \in 0..(M.rows - 1) :
       /\ DOMAIN P.m[i] = 0..(N.cols - 1)
       /\ \A j \in 0..(N.cols - 1) : Entry(P, i, j) = Dot(M, N, i, j, M.cols)

Compatible == pre.A.chls = 1 /\ pre.B.chls = 1 /\ pre.A.cols = pre.B.rows

\* C10: for a single-channel receiver M (r x c) and operand B (c x p), square
\* or not, mmul completes without error and leaves M holding the r x p
\* product with entry (i, j) = sum over k of M[i][k] * B[k][j], B unchanged;
\* and the Prewitt kernel is the product of its first matrix by its second.
C10_MatMulIsProduct ==
  /\ (call.op = "mmul" /\ Compatible) =>
       /\ out.err = "none"
       /\ IsProduct(A, pre.A, pre.B)
       /\ B = pre.B
  /\ call.op = "prewitt" =>
       /\ out.err = "none"
       /\ IsProduct(w, load(prewittLeft), load(prewittRight))

\* What the code does in the case of C10. It fails unless p <= r <= c, and
\* with r < c it fails after overwriting the receiver; with r = c it leaves
\* a c x c matrix whose entry (i, j) is the sum over k < p of
\* B[i][k] * M[k][j], the product in the other order when p = c.
C10_CodeMultipliesReversed ==
  /\ (call.op = "mmul" /\ Compatible) =>
       LET r == pre.A.rows
           c == pre.A.cols
           p == pre.B.cols
       IN /\ B = pre.B
          /\ A.rows = r /\ A.cols = c
          /\ (p > r \/ r > c) => out.err = "RangeError" /\ A = pre.A
          /\ (p <= r /\ r < c) => out.err = "TypeError"
          /\ (p <= r /\ r = c) =>
               /\ out.err = "none"
               /\ \A i \in 0..(c - 1) : \A j \in 0..(c - 1) :
                    Entry(A, i, j) = Dot(pre.B, pre.A, i, j, p)
  /\ call.op = "prewitt" =>
       /\ out.err = "none"
       /\ IsProduct(w, load(prewittRight), load(prewittLeft))

(***************************************************************************)
(* The Matrix operations, called one after another on A while each call    *)
(* returns without error.                                                  *)
(***************************************************************************)
InitOps ==
  /\ A \in Images(1..MaxChls)
  /\ B = Unused
  /\ w = Unused
  /\ pre = [A |-> A, B |-> B, w |-> w]
  /\ call = NoCall
  /\ calls = 0
  /\ alias = {}
  /\ pc = Idle
  /\ stream = NoStream
  /\ out = NoOut

\* The end of a call on A that left r = [mat, err]; every one of these
\* operations returns its receiver.
Called(op, mode, size, r) ==
  /\ out.err = "none"
  /\ calls < MaxCalls
  /\ calls' = calls + 1
  /\ UNCHANGED alias
  /\ UNCHANGED pc
  /\ UNCHANGED stream
  /\ A' = r.mat
  /\ out' = [err |-> r.err, ret |-> IF r.err = "none" THEN "A" ELSE "none", msg |-> <<>>]
  /\ call' = [op |-> op, mode |-> mode, size |-> size]
  /\ pre' = [A |-> A, B |-> B, w |-> w]
  /\ UNCHANGED <<B, w>>

\* A.extrude(n)
Extrude == \E n \in (0 - 1)..(MaxChls + 1) : Called("extrude", "none", n, extrude(A, n))

NextOps == Extrude

(***************************************************************************)
(* Sequences of the shape-changing and value-changing operations on A,     *)
(* from a generated matrix. A behaviour is followed while every call       *)
(* returns and while A stores what it reports (Stored); what the           *)
(* operations do to a matrix that stores something else is not modelled.   *)
(***************************************************************************)
\* M has rows rows of cols cells, and every cell holds chls values: an array
\* of chls numbers, or a bare number when chls = 1.
Stored(M) ==
  /\ DOMAIN M.m = 0..(M.rows - 1)
  /\ \A i \in 0..(M.rows - 1) :
       /\ DOMAIN M.m[i] = 0..(M.cols - 1)
       /\ \A j \in 0..(M.cols - 1) :
            IF M.chls = 1 THEN ~M.m[i][j].arr
            ELSE M.m[i][j].arr /\ Len(M.m[i][j].v) = M.chls

InitShape ==
  /\ A \in { generate(r, c, n, 0) : r \in 1..MaxRows, c \in 1..MaxCols, n \in 1..MaxChls }
  /\ B = Unused
  /\ w = Unused
  /\ pre = [A |-> A, B |-> B, w |-> w]
  /\ call = NoCall
  /\ calls = 0
  /\ alias = {}
  /\ pc = Idle
  /\ stream = NoStream
  /\ out = NoOut

Shaped(op, mode, size, r) == Stored(A) /\ Called(op, mode, size, r)

\* A.generate(rows, cols, chls)
Generate ==
  \E r \in 0..MaxRows, c \in 0..MaxCols, n \in 0..MaxChls :
    Shaped("generate", "none", <<r, c, n>>,
           IF generateErr(r, c, n) # "none" THEN Fail(A, generateErr(r, c, n))
           ELSE Ok(generate(r, c, n, 0)))

\* A.set(i, j, 1, k)
SetChannel ==
  \E i \in 0..A.rows, j \in 0..A.cols, k \in 0..A.chls :
    Shaped("set", "none", <<i, j, k>>, setChannel(A, i, j, Num(1), k))

\* A.setPixel(i, j, 1, 0, 0) and A.setPixel(i, j, 1, 0, 0, 1)
SetPixel ==
  \E i \in 0..A.rows, j \in 0..A.cols, hasA \in BOOLEAN :
    Shaped("setPixel", IF hasA THEN "a" ELSE "none", <<i, j>>,
           setPixel(A, i, j, Num(1), 0, 0, Num(1), hasA))

\* A.extrude(n)
ExtrudeChannels ==
  \E n \in 0..(MaxChls + 1) : Shaped("extrude", "none", n, extrude(A, n))

\* A.intrude(n)
Intrude ==
  \E n \in 0..(MaxChls + 1) : Shaped("intrude", "none", n, intrude(A, n))

\* A.transpose()
Transpose == Shaped("transpose", "none", 0, Ok(transpose(A)))

\* A.flipX(), A.flipY(), A.flipXY()
Flip ==
  \E mode \in {"X", "Y", "XY"} :
    Shaped("flip", mode, 0,
           Ok(CASE mode = "X" -> flipX(A) [] mode = "Y" -> flipY(A) [] OTHER -> flipXY(A)))

\* S.copy(A, {i: oi, j: oj}) from a 1x1 matrix S of n channels
CopyInto ==
  \E n \in 1..MaxChls, oi \in 0..A.rows, oj \in 0..A.cols :
    Shaped("copy", "none", <<n, oi, oj>>, copy(generate(1, 1, n, Num(1)), A, oi, oj))

\* A.add(v), A.sub(v), A.mul(v), A.div(v)
ScalarOp ==
  \E mode \in {"add", "sub", "mul", "div"}, v \in {0, Num(2)} :
    Shaped("scalar", mode, v,
           IF mode = "div" THEN div(A, v) ELSE Ok(mapAll(A, mode, v)))

\* imager.convolution(A, w)
ConvolveWith ==
  \E k \in {identity, emboss} :
    Shaped("convolution", "none", 0,
           [mat |-> convolution(A, k).A, err |-> convolution(A, k).err])

NextShape ==
  \/ Generate \/ SetChannel \/ SetPixel \/ ExtrudeChannels \/ Intrude
  \/ Transpose \/ Flip \/ CopyInto \/ ScalarOp \/ ConvolveWith

SpecShape == InitShape /\ [][NextShape]_vars

SpecOps == InitOps /\ [][NextOps]_vars

\* C11: extrude(n) fails with a validation error for every n less than or
\* equal to the matrix's channel count, n equal to the count (when that is
\* greater than 1) included, and the matrix is unchanged after the failure.
C11_ExtrudeRejectsUpToCount ==
  (call.op = "extrude" /\ call.size <= pre.A.chls) =>
    out.err # "none" /\ A = pre.A

\* C11 as the code has it: extrude(n) fails with a RangeError for every
\* n <= 1 and every n less than the channel count, leaving the matrix
\* unchanged; for n equal to the channel count, when that is greater than
\* 1, it returns without error, and the matrix is unchanged too.
C11_ExtrudeRejectsFewer ==
  call.op = "extrude" =>
    /\ (call.size <= 1 \/ call.size < pre.A.chls) =>
         out.err = "RangeError" /\ A = pre.A
    /\ (call.size > 1 /\ call.size = pre.A.chls) =>
         out.err = "none" /\ out.ret = "A" /\ A = pre.A

C11_Witness ==
  /\ call.op = "extrude" /\ call.size > 1 /\ call.size = pre.A.chls
  /\ out.err = "none" /\ A = pre.A

(***************************************************************************)
(* The filters and the mode-dispatched blends, one call on A (and B).      *)
(***************************************************************************)
GrayModes == {"ITU-R", "normal", "none", "bogus"}
KirschModes ==
  {"right", "topRight", "top", "topLeft", "left", "bottomLeft", "bottom",
   "bottomRight", "bogus"}
SobelModes == {"right", "top", "left", "bottom", "topRight", "bogus"}
BlurModes == {"gaussian", "box", "bogus"}
EdgeLevels == 0..4

InitFilter ==
  /\ A \in Images({3, 4})
  /\ B = image(A.rows, A.cols, 4, 1, FALSE)
  /\ w = Unused
  /\ pre = [A |-> A, B |-> B, w |-> w]
  /\ call = NoCall
  /\ calls = 0
  /\ alias = {}
  /\ pc = Idle
  /\ stream = NoStream
  /\ out = NoOut

\* The end of a filter call that left r = [mat, err, msg].
Filtered(op, mode, size, r) ==
  /\ call.op = "none"
  /\ calls' = calls + 1
  /\ UNCHANGED alias
  /\ UNCHANGED pc
  /\ UNCHANGED stream
  /\ A' = r.mat
  /\ out' = [err |-> r.err, ret |-> IF r.err = "none" THEN "A" ELSE "none", msg |-> r.msg]
  /\ call' = [op |-> op, mode |-> mode, size |-> size]
  /\ pre' = [A |-> A, B |-> B, w |-> w]
  /\ UNCHANGED <<B, w>>

Gray == \E type \in GrayModes : Filtered("gray", type, 0, gray(A, type))
EdgeDetect == \E level \in EdgeLevels : Filtered("edgeDetect", "none", level, edgeDetect(A, level))
Kirsch == \E mode \in KirschModes : Filtered("kirsch", mode, 0, kirsch(A, mode))
Sobel == \E mode \in SobelModes : Filtered("sobel", mode, 0, sobel(A, mode))
Unsharp == \E size \in 1..MaxN : Filtered("unsharp", "none", size, unsharp(A, size))
Blur ==
  \E mode \in BlurModes : \E size \in 1..MaxN :
    Filtered("blur", mode, size, blur(A, mode, size))

\* w = new Matrix([pascal(n)]), the row that gaussianBlur starts from.
Pascal ==
  /\ call.op = "none"
  /\ calls' = calls + 1
  /\ UNCHANGED alias
  /\ UNCHANGED pc
  /\ UNCHANGED stream
  /\ \E n \in 1..(MaxN + 2) :
       /\ w' = load(<<pascal(n)>>)
       /\ call' = [op |-> "pascal", mode |-> "none", size |-> n]
  /\ out' = [err |-> "none", ret |-> "w", msg |-> <<>>]
  /\ pre' = [A |-> A, B |-> B, w |-> w]
  /\ UNCHANGED <<A, B>>

\* B = crop(A, x1, y1, x2, y2), the corners drawn from A's extents and one
\* step beyond them; a throw leaves B as it was.
Crop ==
  /\ call.op = "none"
  /\ calls' = calls + 1
  /\ UNCHANGED alias
  /\ UNCHANGED pc
  /\ UNCHANGED stream
  /\ \E x1 \in 0..(A.rows + 1), y1 \in 0..(A.cols + 1),
        x2 \in 0..(A.rows + 1), y2 \in 0..(A.cols + 1) :
       LET r == crop(A, x1, y1, x2, y2)
       IN /\ B' = IF r.err = "none" THEN r.mat ELSE B
          /\ out' = [err |-> r.err, ret |-> IF r.err = "none" THEN "B" ELSE "none",
                     msg |-> <<>>]
          /\ call' = [op |-> "crop", mode |-> "none", size |-> <<x1, y1, x2, y2>>]
  /\ pre' = [A |-> A, B |-> B, w |-> w]
  /\ UNCHANGED <<A, w>>

NextFilter ==
  \/ Gray \/ EdgeDetect \/ Kirsch \/ Sobel \/ Unsharp \/ Blur
  \/ Light \/ Dodge \/ Burn \/ Pascal \/ Crop

SpecFilter == InitFilter /\ [][NextFilter]_vars

\* The values each mode-dispatched operation accepts.
Accepts(op, mode, size) ==
  CASE op = "light" -> mode \in {"soft", "hard", "vivid", "linear"}
    [] op = "dodge" -> mode \in {"screen", "color", "linear", "divide"}
    [] op = "burn" -> mode \in {"multiply", "color", "linear"}
    [] op = "gray" -> mode \in {"ITU-R", "normal", "none"}
    [] op = "kirsch" -> mode \in {"right", "topRight", "top", "topLeft", "left",
                                  "bottomLeft", "bottom", "bottomRight"}
    [] op = "sobel" -> mode \in {"right", "top", "left", "bottom"}
    [] op = "blur" -> mode \in {"gaussian", "box"}
    [] op = "edgeDetect" -> size \in {1, 2, 3}
    [] OTHER -> TRUE

Offending == IF call.op = "edgeDetect" THEN ToString(call.size) ELSE call.mode

\* C12: a mode-dispatched operation (light, dodge, burn, gray, kirsch,
\* sobel, blur, edgeDetect) called with a value outside its accepted set
\* fails with an error whose message contains the offending value, returns
\* no result, and leaves A and B exactly as before the call.
C12_UnknownModeFails ==
  ~Accepts(call.op, call.mode, call.size) =>
    /\ out.err # "none"
    /\ \E x \in 1..Len(out.msg) : out.msg[x] = Offending
    /\ out.ret = "none"
    /\ A = pre.A
    /\ B = pre.B

C12_Witness ==
  /\ call.op = "sobel" /\ call.mode = "topRight"
  /\ out.err = "SobelError" /\ out.msg[2] = "topRight"
  /\ A = pre.A

(***************************************************************************)
(* light as dodge followed by burn                                         *)
(***************************************************************************)
Before == [A |-> pre.A, B |-> pre.B, err |-> "none", msg |-> <<>>]

C14_UnsharpConvolves ==
  (call.op = "unsharp" /\ pre.A.chls = 4 /\ call.size >= 1 /\ call.size % 2 = 1) =>
    out.err = "none" /\ out.ret = "A"

\* What the code does in the case of C14: the call throws a TypeError and
\* A is as before.
C14_CodeThrows ==
  call.op = "unsharp" => out.err = "TypeError" /\ out.ret = "none" /\ A = pre.A

(***************************************************************************)
(* The Gaussian blur                                                       *)
(***************************************************************************)
\* The binomial coefficient C(n, k).
RECURSIVE Binom(_, _)
Binom(n, k) ==
  IF k < 0 \/ k > n THEN 0
  ELSE IF k = 0 \/ k = n THEN 1
  ELSE Binom(n - 1, k - 1) + Binom(n - 1, k)

GaussWeight(N, k) == FDiv(Num(Binom(N - 1, k)), Num(Pow2(N - 1)))

\* The 1 x N row kernel and the N x 1 column kernel of C15.
RowKernel(N) ==
  [rows |-> 1, cols |-> N, chls |-> 1,
   m |-> [i \in {0} |-> [j \in 0..(N - 1) |-> Scalar(GaussWeight(N, j))]]]

ColKernel(N) ==
  [rows |-> N, cols |-> 1, chls |-> 1,
   m |-> [i \in 0..(N - 1) |-> [j \in {0} |-> Scalar(GaussWeight(N, i))]]]

RECURSIVE WeightSum(_, _)
WeightSum(N, n) == IF n = 0 THEN 0 ELSE FAdd(WeightSum(N, n - 1), GaussWeight(N, n - 1))

\* One convolve pass over an RGBA image M with kernel k, as C2 states it:
\* the clamped flipped sums in the colors, 1 in every alpha.
ClampedPass(M, k) ==
  [M EXCEPT !.m = [i \in 0..(M.rows - 1) |-> [j \in 0..(M.cols - 1) |->
     Pixel(<<Clamp01(FlippedSum(M, k, i, j, 0, k.rows * k.cols)),
             Clamp01(FlippedSum(M, k, i, j, 1, k.rows * k.cols)),
             Clamp01(FlippedSum(M, k, i, j, 2, k.rows * k.cols)),
             One>>)]]]

GaussianCall ==
  call.op = "blur" /\ call.mode = "gaussian" /\ call.size >= 1 /\ call.size % 2 = 1

\* C15: for odd N >= 1 gaussianBlur(N) is the pair of the 1 x N row kernel
\* and the N x 1 column kernel with weights pascal(N)[k] / 2^(N-1), each
\* summing to 1, and blur(A, 'gaussian', N) on an RGBA image is two convolve
\* passes over the same A, the row kernel first, the column kernel second
\* and reading the clamped output of the first.
C15_GaussianTwoPasses ==
  GaussianCall =>
    LET g == gaussianBlur(call.size)
    IN /\ g.err = "none"
       /\ g.w0 = RowKernel(call.size)
       /\ g.w1 = ColKernel(call.size)
       /\ WeightSum(call.size, call.size) = One
       /\ pre.A.chls = 4 =>
            /\ out.err = "none" /\ out.ret = "A"
            /\ A = ClampedPass(ClampedPass(pre.A, RowKernel(call.size)),
                               ColKernel(call.size))

C15_Witness ==
  /\ GaussianCall /\ call.size = 3 /\ pre.A.chls = 4 /\ out.err = "none"
  /\ A # pre.A
  /\ A # ClampedPass(pre.A, RowKernel(3))
  /\ A # ClampedPass(pre.A, ColKernel(3))

\* C16: for every integer n >= 1, pascal(n) is a list of exactly n integers
\* whose k-th entry (k = 0..n-1) is C(n-1, k); pascal(1) = [1],
\* pascal(2) = [1, 1], pascal(5) = [1, 4, 6, 4, 1]; the list is symmetric
\* and its entries sum to 2^(n-1).
RECURSIVE RowSum(_, _)
RowSum(M, n) == IF n = 0 THEN 0 ELSE RowSum(M, n - 1) + M.m[0][n - 1].v[1]

C16_PascalIsBinomial ==
  call.op = "pascal" =>
    LET n == call.size
    IN /\ w.rows = 1 /\ w.cols = n /\ DOMAIN w.m[0] = 0..(n - 1)
       /\ \A k \in 0..(n - 1) :
            /\ w.m[0][k].v[1] = Binom(n - 1, k) * One
            /\ w.m[0][k] = w.m[0][n - 1 - k]
       /\ RowSum(w, n) = Pow2(n - 1) * One
       /\ n = 1 => w = load(<<<<1>>>>)
       /\ n = 2 => w = load(<<<<1, 1>>>>)
       /\ n = 5 => w = load(<<<<1, 4, 6, 4, 1>>>>)

C16_Witness ==
  call.op = "pascal" /\ call.size = 5 /\ w = load(<<<<1, 4, 6, 4, 1>>>>)

(***************************************************************************)
(* Load and save: a sample buffer is converted to a Matrix and back.       *)
(***************************************************************************)
Samples == 0..255

\* A buffer of the given shape whose samples all equal s.
constant(rows, cols, chls, s) ==
  ndarray([x \in 1..(rows * cols * chls) |-> s], <<rows, cols, chls>>)

\* Either a buffer waits to be loaded, or an image is already in memory.
InitStream ==
  /\ \/ /\ stream \in { constant(r, c, n, s) : r \in 1..MaxRows, c \in 1..MaxCols,
                                              n \in 1..MaxChls, s \in Samples }
        /\ A = Unused
     \/ /\ stream = NoStream
        /\ A \in Images(1..MaxChls)
  /\ B = Unused
  /\ w = Unused
  /\ pre = [A |-> A, B |-> B, w |-> w, stream |-> stream]
  /\ call = NoCall
  /\ calls = 0
  /\ alias = {}
  /\ pc = Idle
  /\ out = NoOut

\* A = convert2Matrix(stream); a throw leaves the caller without a Matrix.
Convert2Matrix ==
  /\ call.op = "none"
  /\ stream # NoStream
  /\ LET r == convert2Matrix(stream)
     IN /\ A' = IF r.err = "none" THEN r.mat ELSE A
        /\ out' = [err |-> r.err, ret |-> IF r.err = "none" THEN "A" ELSE "none",
                   msg |-> <<>>]
  /\ call' = [op |-> "convert2Matrix", mode |-> "none", size |-> 0]
  /\ calls' = calls + 1
  /\ UNCHANGED alias
  /\ UNCHANGED pc
  /\ UNCHANGED <<B, w, pre, stream>>

\* stream = convert2Stream(A) on the Matrix that was loaded or was in
\* memory; pre.stream keeps the buffer it was loaded from, pre.A the Matrix
\* before the call.
Convert2Stream ==
  /\ \/ call.op = "convert2Matrix" /\ out.err = "none"
     \/ call.op = "none" /\ stream = NoStream
  /\ LET r == convert2Stream(A)
     IN /\ A' = r.mat
        /\ stream' = r.stream
  /\ out' = [err |-> "none", ret |-> "stream", msg |-> <<>>]
  /\ call' = [op |-> "convert2Stream", mode |-> "none", size |-> 0]
  /\ calls' = calls + 1
  /\ UNCHANGED alias
  /\ UNCHANGED pc
  /\ pre' = [pre EXCEPT !.A = A]
  /\ UNCHANGED <<B, w>>

NextStream == Convert2Matrix \/ Convert2Stream

SpecStream == InitStream /\ [][NextStream]_vars

\* The saved buffer has the loaded buffer's shape and every sample of it is
\* within 1 of the sample loaded at the same place.
WithinOne ==
  /\ stream.shape = pre.stream.shape
  /\ DOMAIN stream.data = DOMAIN pre.stream.data
  /\ \A x \in DOMAIN stream.data :
       /\ stream.data[x] \in Samples
       /\ Abs(stream.data[x] - pre.stream.data[x]) <= 1

\* C17: for every sample value s in 0..255 and every constant buffer filled
\* with s, loading the buffer into a Matrix (each sample divided by 255) and
\* then saving that Matrix (each value multiplied by 255 and truncated
\* toward zero) yields, in (row, col, channel) order, samples that each
\* differ from s by at most 1.
C17_RoundTripWithinOne ==
  /\ call.op = "convert2Matrix" => out.err = "none"
  /\ call.op = "convert2Stream" /\ pre.stream # NoStream => WithinOne

\* What the code does: a buffer of one channel cannot be loaded (TypeError),
\* and a buffer of two or more channels makes the round trip within 1.
C17_CodeLoadsPixelsOnly ==
  /\ call.op = "convert2Matrix" =>
       (out.err = "none" <=> stream.shape[3] > 1)
  /\ call.op = "convert2Matrix" /\ out.err # "none" => out.err = "TypeError"
  /\ call.op = "convert2Stream" /\ pre.stream # NoStream => WithinOne

C17_LoadFails ==
  call.op = "convert2Matrix" /\ out.err = "TypeError" /\ stream.shape[3] = 1

C17_SavedOneLess ==
  /\ call.op = "convert2Stream" /\ pre.stream # NoStream
  /\ \E x \in DOMAIN stream.data : stream.data[x] = pre.stream.data[x] - 1

\* The corners of the crop call lie within A's extents.
CornersWithin ==
  /\ call.size[1] \in 0..pre.A.rows /\ call.size[3] \in 0..pre.A.rows
  /\ call.size[2] \in 0..pre.A.cols /\ call.size[4] \in 0..pre.A.cols

\* The matrix the crop is said to return.
Cropped ==
  LET x1 == call.size[1]
      y1 == call.size[2]
      x2 == call.size[3]
      y2 == call.size[4]
  IN /\ out.err = "none" /\ out.ret = "B"
     /\ B.rows = Abs(x2 - x1) /\ B.cols = Abs(y2 - y1) /\ B.chls = pre.A.chls
     /\ DOMAIN B.m = 0..(B.rows - 1)
     /\ \A i \in 0..(B.rows - 1) :
          /\ DOMAIN B.m[i] = 0..(B.cols - 1)
          /\ \A j \in 0..(B.cols - 1) :
               B.m[i][j] = pre.A.m[i + Min(x1, x2)][j + Min(y1, y2)]
     /\ A = pre.A

\* C18 as stated: for every A and every two corners within A's extents, in
\* either order, crop returns a new matrix of |x2-x1| rows, |y2-y1| columns
\* and A's channel count whose pixel (i, j) is A's pixel
\* (i + min(x1,x2), j + min(y1,y2)), and A is unchanged.
C18_CropReturnsWindow ==
  call.op = "crop" /\ CornersWithin => Cropped

\* C18 as the code has it: the same when the corners differ in both
\* coordinates; corners that share a coordinate ask for a matrix of size 0,
\* which the call refuses with a TypeError, returning nothing and leaving A
\* unchanged.
C18_CropReturnsNonEmptyWindow ==
  call.op = "crop" /\ CornersWithin =>
    IF call.size[1] # call.size[3] /\ call.size[2] # call.size[4]
      THEN Cropped
      ELSE out.err = "TypeError" /\ out.ret = "none" /\ A = pre.A /\ B = pre.B

C18_Witness ==
  /\ call.op = "crop" /\ CornersWithin /\ Cropped
  /\ call.size[1] > call.size[3] /\ call.size[2] < call.size[4]
  /\ call.size[3] > 0
  /\ B.rows < A.rows

(***************************************************************************)
(* Blends whose overlay B is smaller than the base A.                      *)
(***************************************************************************)
InitOverlay ==
  /\ A \in Images({4})
  /\ B \in Images({4})
  /\ B.rows <= A.rows /\ B.cols <= A.cols
  /\ B.rows < A.rows \/ B.cols < A.cols
  /\ w = Unused
  /\ pre = [A |-> A, B |-> B, w |-> w]
  /\ call = NoCall
  /\ calls = 0
  /\ alias = {}
  /\ pc = Idle
  /\ stream = NoStream
  /\ out = NoOut

SpecOverlay == InitOverlay /\ [][NextBlend]_vars

\* C19: when a blend operator (addition, multiply, dodge in 'color' mode,
\* ...) raises an error part-way through its traversal because B has fewer
\* rows or columns than A, then after the failure A holds exactly its
\* pre-call values in every pixel and B holds exactly its pre-call values.
C19_FailureLeavesOperands ==
  call.op # "none" /\ out.err = "RangeError" => A = pre.A /\ B = pre.B

\* What the code does: the cells visited before the first one B lacks keep
\* their blended values, and the operand B is never restored by a failing
\* dodge 'color', which leaves it inverted.
C19_CodeKeepsPartialResult ==
  /\ call.op = "addition" =>
       /\ out.err = "RangeError" /\ B = pre.B
       /\ \A k \in 0..2 : get(A, 0, 0, k) = FAdd(get(pre.A, 0, 0, k), get(pre.B, 0, 0, k))
  /\ call.op = "dodge" /\ call.mode = "color" =>
       out.err = "RangeError" /\ B = invert(pre.B).mat

C19_PartialResult ==
  call.op = "addition" /\ out.err = "RangeError" /\ A # pre.A

C19_OverlayLeftInverted ==
  call.op = "dodge" /\ call.mode = "color" /\ out.err = "RangeError" /\ B # pre.B

\* C20: after any sequence of calls that each return without error, drawn
\* from generate, set(row, col, v, channel), setPixel, extrude, intrude,
\* transpose, the flips, copy, the scalar operations and convolution, the
\* matrix has exactly rows rows, every row has exactly cols entries, and
\* every pixel holds exactly chls values (a bare number when chls = 1).
C20_ShapeInvariant ==
  out.err = "none" => Stored(A)

\* What the code keeps: every operation but intrude and copy preserves the
\* stored shape; intrude preserves it when the new count is not above the
\* current one, copy when the source has the target's channel count.
C20_CodeKeepsShape ==
  out.err = "none" /\ ~Stored(A) =>
    \/ call.op = "intrude" /\ call.size > pre.A.chls
    \/ call.op = "copy" /\ call.size[1] # pre.A.chls

C20_IntrudeUpward ==
  /\ call.op = "intrude" /\ out.err = "none"
  /\ pre.A.chls = 3 /\ A.chls = 4
  /\ \A c \in Cells(A) : Len(A.m[c[1]][c[2]].v) = 3

C20_CopyOtherChannels ==
  /\ call.op = "copy" /\ out.err = "none"
  /\ A.chls = 3 /\ ~A.m[0][0].arr

\* C21: convolution leaves the kernel passed by the caller unchanged (same
\* channel count and same value at every cell as before the call), also for
\* a kernel that is not symmetric under 180-degree rotation.
C21_KernelUnchanged ==
  call.op = "convolution" /\ out.err = "none" => w = pre.w

\* What the code does to the caller's kernel: a returning call leaves it
\* extruded to the image's channel count (when it had one channel and the
\* image more) and rotated by 180 degrees.
C21_CodeFlipsKernel ==
  call.op = "convolution" /\ out.err = "none" =>
    w = flipXY(broadcast(pre.A, pre.w).mat)

C21_KernelRotated ==
  /\ call.op = "convolution" /\ out.err = "none"
  /\ pre.w = emboss /\ w.chls = 4
  /\ w.m[0][0] = Pixel(<<Num(2), Num(2), Num(2), Num(2)>>)

\* A second call with the same kernel object on the same image values gives
\* another result than the first call gave.
C21_SecondCallDiffers ==
  /\ call.op = "convolution" /\ out.err = "none"
  /\ pre.w.chls = pre.A.chls
  /\ convolution(pre.A, w).err = "none"
  /\ convolution(pre.A, w).A # A

\* C23: saving does not alter the image: for every Matrix A with values in
\* [0, 1] (not only multiples of 1/255), after convert2Stream(A) every value
\* of A equals its value before the call.
C23_SaveKeepsValues ==
  call.op = "convert2Stream" /\ In01(pre.A) => A = pre.A

\* What the code leaves in A: every value multiplied by 255, truncated to an
\* integer and divided by 255 again; the shape is kept.
C23_CodeStoresTruncated ==
  call.op = "convert2Stream" =>
    /\ SameShape(A, pre.A)
    /\ \A c \in Cells(A) : \A x \in 1..Len(A.m[c[1]][c[2]].v) :
         A.m[c[1]][c[2]].v[x] =
           FDiv(parseInt(FMul(pre.A.m[c[1]][c[2]].v[x], Num(255))), Num(255))

C23_HalfIsLowered ==
  /\ call.op = "convert2Stream" /\ pre.stream = NoStream /\ In01(pre.A)
  /\ \E c \in Cells(A) :
       /\ pre.A.m[c[1]][c[2]].v[1] = One \div 2
       /\ A.m[c[1]][c[2]].v[1] = FDiv(Num(127), Num(255))

C23_LoadedValueIsLowered ==
  /\ call.op = "convert2Stream" /\ pre.stream # NoStream
  /\ A # pre.A

(***************************************************************************)
(* pixelize, one turn of its two outer loops per step. pc holds the loop   *)
(* variables i and j of the running call, and the parity of the number of  *)
(* turns it has taken.                                                     *)
(***************************************************************************)
\* j += size on a JavaScript number: below -2^53 the sum rounds back to j, so
\* a falling j ends at a floor; MaxDrift stands for that floor.
stepped(j, size) == IF j + size < 0 - MaxDrift THEN 0 - MaxDrift ELSE j + size

\* imager.pixelize(A, size) is entered: i = 0 < A.rows and j = 0 < A.cols.
PixelizeStart ==
  /\ call.op = "none"
  /\ \E size \in (0 - 2)..MaxSize :
       call' = [op |-> "pixelize", mode |-> "none", size |-> size]
  /\ pc' = [at |-> "turn", i |-> 0, j |-> 0, turns |-> 0]
  /\ pre' = [A |-> A, B |-> B, w |-> w]
  /\ calls' = calls + 1
  /\ UNCHANGED alias
  /\ UNCHANGED <<A, B, w, out, stream>>

\* The loop control of one turn: the first A.get(i2, j2, k) with k >= chls
\* throws; otherwise j += size, and when j has reached A.cols, i += size and
\* j = 0, and when i has reached A.rows the call returns.
PixelizeAdvance ==
  /\ pc.at = "turn"
  /\ pc' = IF call.size >= 1 /\ A.chls < 3
             THEN [pc EXCEPT !.at = "done", !.turns = 1 - pc.turns]
           ELSE IF pc.j + call.size < A.cols
             THEN [pc EXCEPT !.j = stepped(pc.j, call.size), !.turns = 1 - pc.turns]
           ELSE IF pc.i + call.size < A.rows
             THEN [pc EXCEPT !.i = pc.i + call.size, !.j = 0, !.turns = 1 - pc.turns]
           ELSE [pc EXCEPT !.at = "done", !.turns = 1 - pc.turns]

\* One turn of the loop over j at (pc.i, pc.j): the block is summed, divided
\* and written (no cell at all when size <= 0), then the loop control.
PixelizeTurn ==
  /\ PixelizeAdvance
  /\ A' = IF call.size >= 1 /\ ~(A.chls < 3)
            THEN pixelizeBlock(A, pc.i, pc.j, call.size) ELSE A
  /\ out' = IF pc'.at # "done" THEN out
            ELSE IF call.size >= 1 /\ A.chls < 3
              THEN [err |-> "RangeError", ret |-> "none", msg |-> <<>>]
            ELSE [err |-> "none", ret |-> "A", msg |-> <<>>]
  /\ UNCHANGED <<B, w, pre, call, calls, stream, alias>>

NextLoop == PixelizeStart \/ PixelizeTurn

SpecLoop == InitPix /\ [][NextLoop]_vars

\* The loop is a sequential program: it takes its next turn while it has
\* one. Every step of the behaviour that advances pc is a PixelizeTurn.
FairLoop == SpecLoop /\ WF_pc(PixelizeAdvance)

\* C24: pixelize(A, size) terminates for every image with at least one row
\* and one column and every integer size, including size = 0 and negative
\* sizes (ending with a result or with an error, never looping forever).
C24_PixelizeTerminates ==
  (pc.at = "turn") ~> (pc.at = "done")

\* What the code does: with size >= 1 every turn either ends the call or
\* moves (i, j) forward, so the call ends, with the result of pixelize or
\* its error ...
C24_PositiveSizeAdvances ==
  [][pc.at = "turn" /\ call.size >= 1 =>
       \/ pc'.at = "done"
       \/ pc'.i > pc.i
       \/ pc'.i = pc.i /\ pc'.j > pc.j]_vars

C24_TerminatesForPositiveSize ==
  (pc.at = "turn" /\ call.size >= 1) ~> (pc.at = "done")

C24_LoopComputesPixelize ==
  pc.at = "done" =>
    /\ call.size >= 1
    /\ out.err = pixelize(pre.A, call.size).err
    /\ A = pixelize(pre.A, call.size).mat

\* ... and a call with size <= 0 never ends: no turn leaves the loop, and A
\* is never written.
C24_CodeNeverLeaves ==
  pc.at = "turn" /\ call.size <= 0 =>
    /\ A = pre.A /\ out = NoOut
    /\ pc.i = 0 /\ pc.j <= 0 /\ pc.j + call.size < A.cols

C24_LoopStuck ==
  pc.at = "turn" /\ call.size = 0 - 1 /\ pc.j = 0 - MaxDrift

(***************************************************************************)
(* Pixel arrays as objects. get(i, j) returns the stored array itself, so  *)
(* copy and crop store in B the very arrays of A. alias holds the pairs    *)
(* <<cell of A, cell of B>> that are one array; a write into an array      *)
(* (m[i][j][k] = v, *= v) shows in both cells.                             *)
(***************************************************************************)
\* The cells of M that hold an array.
ArrayCells(M) == { c \in Cells(M) : M.m[c[1]][c[2]].arr }

\* The other matrix after in-place writes turned one matrix into written:
\* side names the matrix written ("A" or "B"), al the shared arrays.
writeThrough(written, other, al, side) ==
  [other EXCEPT !.m = [i \in 0..(other.rows - 1) |-> [j \in 0..(other.cols - 1) |->
     LET same == IF side = "A"
                   THEN { p[1] : p \in { q \in al : q[2] = <<i, j>> } }
                   ELSE { p[2] : p \in { q \in al : q[1] = <<i, j>> } }
     IN IF same = {} THEN other.m[i][j]
        ELSE LET c == CHOOSE x \in same : TRUE
             IN written.m[c[1]][c[2]]]]]

InitAlias ==
  /\ A \in Images({1, 3, 4})
  /\ B = Unused
  /\ w = Unused
  /\ pre = [A |-> A, B |-> B, w |-> w]
  /\ call = NoCall
  /\ calls = 0
  /\ stream = NoStream
  /\ pc = Idle
  /\ alias = {}
  /\ out = NoOut

\* A.copy(B, {i: oi, j: oj}) into B = new Matrix(A.rows + 1, A.cols + 1, chls)
CopyTo ==
  /\ call.op = "none"
  /\ \E oi \in 0..1, oj \in 0..1 :
       LET r == copy(A, zeros(A.rows + 1, A.cols + 1, A.chls), oi, oj)
       IN /\ B' = r.mat
          /\ out' = [err |-> r.err, ret |-> IF r.err = "none" THEN "B" ELSE "none",
                     msg |-> <<>>]
          /\ alias' = { <<c, <<c[1] + oi, c[2] + oj>>>> : c \in ArrayCells(A) }
          /\ call' = [op |-> "copy", mode |-> "none", size |-> <<oi, oj>>]
  /\ pre' = [A |-> A, B |-> B, w |-> w]
  /\ calls' = calls + 1
  /\ UNCHANGED <<A, w, stream, pc>>

\* B = imager.crop(A, x1, y1, x2, y2)
CropFrom ==
  /\ call.op = "none"
  /\ \E x1 \in 0..A.rows, y1 \in 0..A.cols, x2 \in 0..A.rows, y2 \in 0..A.cols :
       LET r == crop(A, x1, y1, x2, y2)
       IN /\ B' = IF r.err = "none" THEN r.mat ELSE B
          /\ out' = [err |-> r.err, ret |-> IF r.err = "none" THEN "B" ELSE "none",
                     msg |-> <<>>]
          /\ alias' = IF r.err # "none" THEN {}
                      ELSE { <<<<c[1] + Min(x1, x2), c[2] + Min(y1, y2)>>, c>> :
                               c \in ArrayCells(r.mat) }
          /\ call' = [op |-> "crop", mode |-> "none", size |-> <<x1, y1, x2, y2>>]
  /\ pre' = [A |-> A, B |-> B, w |-> w]
  /\ calls' = calls + 1
  /\ UNCHANGED <<A, w, stream, pc>>

\* The end of a later call on one of the two matrices that left it as
\* r = [mat, err]; these calls write into the stored arrays.
Mutated(op, side, size, r) ==
  /\ call.op \in {"copy", "crop"}
  /\ out.err = "none"
  /\ A' = IF side = "A" THEN r.mat ELSE writeThrough(r.mat, A, alias, "B")
  /\ B' = IF side = "B" THEN r.mat ELSE writeThrough(r.mat, B, alias, "A")
  /\ out' = [err |-> r.err, ret |-> IF r.err = "none" THEN side ELSE "none", msg |-> <<>>]
  /\ call' = [op |-> op, mode |-> side, size |-> size]
  /\ pre' = [A |-> A, B |-> B, w |-> w]
  /\ calls' = calls + 1
  /\ UNCHANGED <<w, stream, pc, alias>>

\* A.set(i, j, 0.125, k) or B.set(i, j, 0.125, k)
SetLater ==
  \E side \in {"A", "B"} :
    LET M == IF side = "A" THEN A ELSE B
    IN \E c \in Cells(M), k \in 0..(M.chls - 1) :
         Mutated("set", side, <<c[1], c[2], k>>, setChannel(M, c[1], c[2], One \div 8, k))

\* A.mul(0.5) or B.mul(0.5)
MulLater ==
  \E side \in {"A", "B"} :
    Mutated("mul", side, 0, Ok(mul(IF side = "A" THEN A ELSE B, One \div 2)))

\* imager.invert(A) or imager.invert(B)
InvertLater ==
  \E side \in {"A", "B"} :
    Mutated("invert", side, 0, invert(IF side = "A" THEN A ELSE B))

NextAlias == CopyTo \/ CropFrom \/ SetLater \/ MulLater \/ InvertLater

SpecAlias == InitAlias /\ [][NextAlias]_vars

\* C22: after A.copy(B, ...) on a multi-channel A, or after B = crop(A, ...)
\* on a multi-channel A, a later set(row, col, v, channel) or in-place
\* operation (invert, scalar mul) on B changes no value of A, and one on A
\* changes no value of B.
C22_NoSharedStorage ==
  call.op \in {"set", "mul", "invert"} =>
    /\ call.mode = "B" => A = pre.A
    /\ call.mode = "A" => B = pre.B

\* What the code has: the cells paired by the copy or the crop stay one
\* array, equal in both matrices after every later call; matrices of one
\* channel hold bare numbers and share nothing.
C22_CodeSharesArrays ==
  /\ \A p \in alias : A.m[p[1][1]][p[1][2]] = B.m[p[2][1]][p[2][2]]
  /\ A.chls = 1 => alias = {}
  /\ call.op \in {"set", "mul", "invert"} /\ alias = {} =>
       /\ call.mode = "B" => A = pre.A
       /\ call.mode = "A" => B = pre.B

C22_TargetWriteReachesSource ==
  /\ call.op = "set" /\ call.mode = "B" /\ out.err = "none"
  /\ A # pre.A
  /\ \E p \in alias : A.m[p[1][1]][p[1][2]].v[call.size[3] + 1] = One \div 8

C22_SourceInvertReachesCrop ==
  /\ call.op = "invert" /\ call.mode = "A" /\ out.err = "none"
  /\ B.rows <= A.rows /\ B.cols <= A.cols
  /\ B # pre.B

====
